---- MODULE Spec2Model ----
(***************************************************************************)
(* Model of the log-monitoring backend: the ingest writer                  *)
(* (LogStore.save_upload, upload_log_file), the store reader               *)
(* (LogStore.read_lines, iter_jsonl), the two normalizers                  *)
(* (normalize of main.py, LogParser.normalize) and the window selector     *)
(* (Aggregator.filter_by_window, load_window).                             *)
(*                                                                         *)
(* Text (an upload payload, the store file) is a sequence of tokens; a     *)
(* string is a sequence of chunks of characters.  json.loads and          *)
(* json.dumps are modelled on tokens; Python values are records of one     *)
(* shape, tagged by type.                                                  *)
(***************************************************************************)
EXTENDS Integers, Sequences, FiniteSets, TLC

\* ------------------------------------------------------------------------
\* State
\* ------------------------------------------------------------------------

VARIABLES
    \* The store and the ingest in progress (LogStore.save_upload,
    \* upload_log_file):
    file,       \* the text of the store file
    wpc,        \* "idle", "items" (the loop of _write_jsonl), "fallback"
                \* (the fallback, before it opens the file), "raw" (the
                \* fallback, the file opened and not yet written)
    wimpl,      \* which of the two ingest handlers is running, "" when none
    witems,     \* the items _write_jsonl has still to look at
    wresult,    \* what the last call returned or raised, "running" meanwhile
    wpayload,   \* the bytes of the current or last call
    wstored,    \* the bytes of the call whose lines the store holds: those
                \* of the last call that wrote, none while a call writes
    wprev,      \* the text of the file when the current or last call was made
    \* A query in progress (LogStore.read_lines under load_all_entries,
    \* iter_jsonl under get_latest_timestamp):
    rpc,        \* "idle", "reading", "rescan" (load_window in its second
                \* scan), "done"
    rquery,     \* the query: "load_all_entries", "get_latest_timestamp" or
                \* "load_window"
    rlatest,    \* the latest timestamp load_window got from its first scan
    rpos,       \* how much of the file the reader has consumed
    racc,       \* the lines it has yielded
    rbefore,    \* the text of the file before the ingest the query met
    roverlap,   \* how many ingest calls the query has met (2: two or more)
    qres,       \* what the query returned or raised
    \* A call of the normalizers: the raw record, and what normalize of
    \* main.py and LogParser.normalize returned ("pending" before the call):
    nraw, nmain, nparser,
    \* A window selection: the raw records of the store, the minutes, the wall
    \* clock, and what filter_by_window over load_all_entries and load_window
    \* returned:
    wrecords, wminutes, wnow, wagg, wmain,
    \* A call of quantile: the sorted values, the level q, and what it
    \* returned ("pending" before the call):
    svals, sq, sres,
    \* A call of an aggregation over the records of the store: which one, its
    \* arguments and what it returned:
    acall

ingestVars == <<file, wpc, wimpl, witems, wresult, wpayload, wstored>>
queryVars == <<rpc, rquery, rlatest, rpos, racc, qres>>
\* The history of the store under an overlapping ingest and query: no code
\* reads it.
metVars == <<wprev, rbefore, roverlap>>
storeVars == <<ingestVars, queryVars, metVars>>
normVars == <<nraw, nmain, nparser>>
windowVars == <<wrecords, wminutes, wnow, wagg, wmain>>
quantVars == <<svals, sq, sres>>
aggVars == <<acall>>
vars == <<storeVars, normVars, windowVars, quantVars, aggVars>>

\* ------------------------------------------------------------------------
\* Sequence helpers
\* ------------------------------------------------------------------------

Range(s) == {s[i] : i \in 1..Len(s)}

RECURSIVE FlattenSeq(_)
FlattenSeq(ss) == IF ss = <<>> THEN <<>> ELSE Head(ss) \o FlattenSeq(Tail(ss))

MinOf(S) == CHOOSE x \in S : \A y \in S : x <= y
MaxOf(S) == CHOOSE x \in S : \A y \in S : y <= x

\* ------------------------------------------------------------------------
\* Python values, as json.loads returns them
\* ------------------------------------------------------------------------

\* t: the type; n: the number or the truth value; s: the characters of a
\* str; k, a: the keys and the values of a dict in insertion order, or a: the
\* elements of a list.
PyVal(t, n, s, k, a) == [t |-> t, n |-> n, s |-> s, k |-> k, a |-> a]
JNull == PyVal("null", 0, <<>>, <<>>, <<>>)
JBool(b) == PyVal("bool", IF b THEN 1 ELSE 0, <<>>, <<>>, <<>>)
JNum(n) == PyVal("num", n, <<>>, <<>>, <<>>)
JStr(s) == PyVal("str", 0, s, <<>>, <<>>)
JList(items) == PyVal("list", 0, <<>>, <<>>, items)
JDict(keys, vals) == PyVal("dict", 0, <<>>, keys, vals)
None == JNull

IsDict(v) == v.t = "dict"
IsList(v) == v.t = "list"
IsBool(v) == v.t = "bool"
IsNone(v) == v.t = "null"

\* bool(v): the truth value Python's `or`, `if` and `not` use.
Truthy(v) ==
    CASE v.t = "null" -> FALSE
      [] v.t = "bool" -> v.n = 1
      [] v.t = "num" -> v.n # 0
      [] v.t = "str" -> v.s # <<>>
      [] v.t = "list" -> v.a # <<>>
      [] v.t = "dict" -> v.k # <<>>

\* a or b
Or(x, y) == IF Truthy(x) THEN x ELSE y

\* key in d, for a dict d
HasKey(d, key) == \E i \in 1..Len(d.k) : d.k[i] = key
\* d[key]
Item(d, key) == d.a[CHOOSE i \in 1..Len(d.k) : d.k[i] = key]
\* d.get(key)
Get(d, key) == IF HasKey(d, key) THEN Item(d, key) ELSE None
\* d[key] = val: a new key goes last, a known key keeps its place
SetItem(keys, vals, key, val) ==
    IF \E i \in 1..Len(keys) : keys[i] = key
    THEN [ks |-> keys,
          vs |-> [i \in 1..Len(vals) |-> IF keys[i] = key THEN val ELSE vals[i]]]
    ELSE [ks |-> Append(keys, key), vs |-> Append(vals, val)]

\* a == b on Python values: dicts compare by their items, whatever the order.
RECURSIVE PyEq(_, _)
PyEq(x, y) ==
    IF x.t # y.t THEN FALSE
    ELSE CASE x.t = "list" ->
                /\ Len(x.a) = Len(y.a)
                /\ \A i \in 1..Len(x.a) : PyEq(x.a[i], y.a[i])
           [] x.t = "dict" ->
                /\ Range(x.k) = Range(y.k)
                /\ Len(x.k) = Len(y.k)
                /\ \A i \in 1..Len(x.k) : PyEq(x.a[i], Item(y, x.k[i]))
           [] OTHER -> x = y

\* ------------------------------------------------------------------------
\* Text: tokens, lines, strip
\* ------------------------------------------------------------------------

\* k: the kind of token; n: the number of a "num"; s: the characters between
\* the quotes of a "str", as written (escapes not yet decoded).
Tok(k) == [k |-> k, n |-> 0, s |-> <<>>]
TNum(n) == [k |-> "num", n |-> n, s |-> <<>>]
TStr(s) == [k |-> "str", n |-> 0, s |-> s]
NL == Tok("nl")
SP == Tok("sp")
\* A run of characters that is no JSON: a bare word, a broken literal.
Junk == Tok("junk")

\* The characters of a string that JSON escapes, and their escapes.
LF == "\n"
EscLF == "\\n"
QUOTE == "\""
EscQUOTE == "\\\""
\* A lone surrogate: JSON writes it as an escape, and a str may hold it, but
\* UTF-8 has no bytes for it.
SURROGATE == "U+D800"
EscSURROGATE == "\\ud800"

\* str.strip() and the parser's whitespace: blanks and line ends
IsSpaceTok(tk) == tk.k \in {"sp", "nl"}

\* A string literal holding a raw line feed spans two lines of the file.
HasRawLF(tk) == tk.k = "str" /\ \E i \in 1..Len(tk.s) : tk.s[i] = LF

\* text.strip()
RECURSIVE LStrip(_)
LStrip(text) ==
    IF text # <<>> /\ IsSpaceTok(Head(text)) THEN LStrip(Tail(text)) ELSE text
RECURSIVE RStrip(_)
RStrip(text) ==
    IF text # <<>> /\ IsSpaceTok(text[Len(text)])
    THEN RStrip(SubSeq(text, 1, Len(text) - 1)) ELSE text
Strip(text) == RStrip(LStrip(text))

\* The characters of a text as a reader of lines meets them: a string
\* literal that holds a raw line feed is two broken halves on two lines.
RECURSIVE Chars(_)
Chars(text) ==
    IF text = <<>> THEN <<>>
    ELSE (IF HasRawLF(Head(text)) THEN <<Junk, NL, Junk>> ELSE <<Head(text)>>)
         \o Chars(Tail(text))

\* The lines of a text, each without its line end.
RECURSIVE SplitLinesFrom(_, _, _)
SplitLinesFrom(text, cur, acc) ==
    IF text = <<>> THEN (IF cur = <<>> THEN acc ELSE Append(acc, cur))
    ELSE IF Head(text).k = "nl"
    THEN SplitLinesFrom(Tail(text), <<>>, Append(acc, cur))
    ELSE SplitLinesFrom(Tail(text), Append(cur, Head(text)), acc)
\* str.splitlines(), and the lines a text-mode file iterates over
splitlines(text) == SplitLinesFrom(Chars(text), <<>>, <<>>)

\* ------------------------------------------------------------------------
\* json.dumps and json.loads
\* ------------------------------------------------------------------------

\* The escapes json.dumps writes inside a string literal; with
\* ensure_ascii=False a character that is not ASCII is written as it is.
EscapeChar(c) == IF c = LF THEN EscLF ELSE IF c = QUOTE THEN EscQUOTE ELSE c
UnescapeChar(c) ==
    IF c = EscLF THEN LF ELSE IF c = EscQUOTE THEN QUOTE
    ELSE IF c = EscSURROGATE THEN SURROGATE ELSE c
Escape(s) == [i \in 1..Len(s) |-> EscapeChar(s[i])]
Unescape(s) == [i \in 1..Len(s) |-> UnescapeChar(s[i])]

\* json.dumps(v, ensure_ascii=False): one line, ", " and ": " as separators
RECURSIVE dumps(_)
dumps(v) ==
    CASE v.t = "null" -> <<Tok("null")>>
      [] v.t = "bool" -> <<Tok(IF v.n = 1 THEN "true" ELSE "false")>>
      [] v.t = "num" -> <<TNum(v.n)>>
      [] v.t = "str" -> <<TStr(Escape(v.s))>>
      [] v.t = "list" ->
            <<Tok("[")>>
            \o FlattenSeq([i \in 1..Len(v.a) |->
                  (IF i > 1 THEN <<Tok(","), SP>> ELSE <<>>) \o dumps(v.a[i])])
            \o <<Tok("]")>>
      [] v.t = "dict" ->
            <<Tok("{")>>
            \o FlattenSeq([i \in 1..Len(v.k) |->
                  (IF i > 1 THEN <<Tok(","), SP>> ELSE <<>>)
                  \o <<TStr(Escape(v.k[i])), Tok(":"), SP>> \o dumps(v.a[i])])
            \o <<Tok("}")>>

\* f.write(s) on a file opened with encoding="utf-8": UnicodeEncodeError for
\* a text that holds a lone surrogate.
Encodable(text) ==
    \A i \in 1..Len(text) :
        \A j \in 1..Len(text[i].s) : text[i].s[j] # SURROGATE

\* json.loads: [ok, v, next]; ok is FALSE where json.loads raises.
ParseFail == [ok |-> FALSE, v |-> JNull, next |-> 0]
Parsed(v, next) == [ok |-> TRUE, v |-> v, next |-> next]

\* The first place at or after i that holds no whitespace (Len + 1: none).
RECURSIVE SkipWs(_, _)
SkipWs(toks, i) ==
    IF i <= Len(toks) /\ IsSpaceTok(toks[i]) THEN SkipWs(toks, i + 1) ELSE i

\* A string literal is valid when it holds no raw control character or quote.
ValidStrTok(tk) ==
    tk.k = "str" /\ \A i \in 1..Len(tk.s) : tk.s[i] \notin {LF, QUOTE}

RECURSIVE ParseValue(_, _)
RECURSIVE ParseElems(_, _, _)
RECURSIVE ParseMembers(_, _, _, _)
ParseValue(toks, i0) ==
    LET i == SkipWs(toks, i0) IN
    IF i > Len(toks) THEN ParseFail
    ELSE LET tk == toks[i] IN
         CASE tk.k = "num" -> Parsed(JNum(tk.n), i + 1)
           [] tk.k = "str" ->
                IF ValidStrTok(tk) THEN Parsed(JStr(Unescape(tk.s)), i + 1)
                ELSE ParseFail
           [] tk.k = "true" -> Parsed(JBool(TRUE), i + 1)
           [] tk.k = "false" -> Parsed(JBool(FALSE), i + 1)
           [] tk.k = "null" -> Parsed(JNull, i + 1)
           [] tk.k = "[" ->
                LET j == SkipWs(toks, i + 1) IN
                IF j <= Len(toks) /\ toks[j].k = "]"
                THEN Parsed(JList(<<>>), j + 1)
                ELSE ParseElems(toks, i + 1, <<>>)
           [] tk.k = "{" ->
                LET j == SkipWs(toks, i + 1) IN
                IF j <= Len(toks) /\ toks[j].k = "}"
                THEN Parsed(JDict(<<>>, <<>>), j + 1)
                ELSE ParseMembers(toks, i + 1, <<>>, <<>>)
           [] OTHER -> ParseFail
ParseElems(toks, i, acc) ==
    LET r == ParseValue(toks, i) IN
    IF ~r.ok THEN ParseFail
    ELSE LET j == SkipWs(toks, r.next) IN
         IF j > Len(toks) THEN ParseFail
         ELSE IF toks[j].k = "," THEN ParseElems(toks, j + 1, Append(acc, r.v))
         ELSE IF toks[j].k = "]" THEN Parsed(JList(Append(acc, r.v)), j + 1)
         ELSE ParseFail
ParseMembers(toks, i, keys, vals) ==
    LET j == SkipWs(toks, i) IN
    IF j > Len(toks) \/ ~ValidStrTok(toks[j]) THEN ParseFail
    ELSE LET c == SkipWs(toks, j + 1) IN
         IF c > Len(toks) \/ toks[c].k # ":" THEN ParseFail
         ELSE LET r == ParseValue(toks, c + 1) IN
              IF ~r.ok THEN ParseFail
              ELSE LET e == SkipWs(toks, r.next)
                       d == SetItem(keys, vals, Unescape(toks[j].s), r.v)
                   IN  IF e > Len(toks) THEN ParseFail
                       ELSE IF toks[e].k = ","
                       THEN ParseMembers(toks, e + 1, d.ks, d.vs)
                       ELSE IF toks[e].k = "}"
                       THEN Parsed(JDict(d.ks, d.vs), e + 1)
                       ELSE ParseFail

\* json.loads(text): a whole document, nothing but whitespace after it
loads(text) ==
    LET r == ParseValue(text, 1) IN
    IF r.ok /\ SkipWs(text, r.next) = Len(text) + 1 THEN r ELSE ParseFail

\* ------------------------------------------------------------------------
\* Helpers of the normalizers (utils/helpers.py, and their twins in main.py)
\* ------------------------------------------------------------------------

\* A key of a JSON object, as the str it is.
K(name) == <<name>>

\* The blank character, and what str.lower() does to the words in use.
BLANK == " "
LowerChar(c) ==
    CASE c \in {"True", "TRUE"} -> "true"
      [] c \in {"False", "FALSE"} -> "false"
      [] c \in {"Yes", "YES"} -> "yes"
      [] c \in {"No", "NO"} -> "no"
      [] c \in {"ERROR", "Error"} -> "error"
      [] c \in {"INFO", "Info"} -> "info"
      [] OTHER -> c
UpperChar(c) ==
    CASE c \in {"error", "Error"} -> "ERROR"
      [] c \in {"info", "Info"} -> "INFO"
      [] OTHER -> c
lower(s) == [i \in 1..Len(s) |-> LowerChar(s[i])]
upper(s) == [i \in 1..Len(s) |-> UpperChar(s[i])]
RECURSIVE strip(_)
strip(s) ==
    IF s # <<>> /\ Head(s) = BLANK THEN strip(Tail(s))
    ELSE IF s # <<>> /\ s[Len(s)] = BLANK THEN strip(SubSeq(s, 1, Len(s) - 1))
    ELSE s

\* str(x)
PyStr(x) ==
    CASE x.t = "str" -> x.s
      [] x.t = "num" -> <<ToString(x.n)>>
      [] x.t = "bool" -> <<IF x.n = 1 THEN "True" ELSE "False">>
      [] x.t = "null" -> <<"None">>
      [] x.t = "list" -> <<"[", "...", "]">>
      [] x.t = "dict" -> <<"{", "...", "}">>

\* The decimal numerals that occur in a str of the model, and their values.
Numerals == {"0", "1", "7", "200", "500"}
NumeralValue(c) ==
    CASE c = "0" -> 0
      [] c = "1" -> 1
      [] c = "7" -> 7
      [] c = "200" -> 200
      [] c = "500" -> 500

\* int(x) and float(x): [ok, n]; ok is FALSE where Python raises.  A str is
\* stripped and read as a numeral; a list, a dict and None raise.
PyInt(x) ==
    CASE x.t \in {"num", "bool"} -> [ok |-> TRUE, n |-> x.n]
      [] x.t = "str" ->
            LET s == strip(x.s) IN
            IF Len(s) = 1 /\ s[1] \in Numerals
            THEN [ok |-> TRUE, n |-> NumeralValue(s[1])]
            ELSE [ok |-> FALSE, n |-> 0]
      [] OTHER -> [ok |-> FALSE, n |-> 0]

\* safe_int(x), safe_float(x): None for None and where the conversion raises
safe_int(x) ==
    IF IsNone(x) THEN None
    ELSE IF PyInt(x).ok THEN JNum(PyInt(x).n) ELSE None
safe_float(x) ==
    IF IsNone(x) THEN None
    ELSE IF PyInt(x).ok THEN JNum(PyInt(x).n) ELSE None

\* get_nested(d, path)
RECURSIVE get_nested(_, _)
get_nested(d, path) ==
    IF path = <<>> THEN d
    ELSE IF ~IsDict(d) \/ ~HasKey(d, Head(path)) THEN None
    ELSE get_nested(Item(d, Head(path)), Tail(path))

\* The ISO-8601 texts in use: a date and time of day, then an offset or
\* none.  Times are minutes since 2025-01-01T00:00 UTC.
DateTimes ==
    {"2025-01-01T09:00", "2025-01-01T10:00", "2025-01-01T10:01", "2025-01-01T11:00"}
DateTimeMinutes(c) ==
    CASE c = "2025-01-01T09:00" -> 540
      [] c = "2025-01-01T10:00" -> 600
      [] c = "2025-01-01T10:01" -> 601
      [] c = "2025-01-01T11:00" -> 660
Offsets == {"Z", "+01:00"}
OffsetMinutes(c) == IF c = "+01:00" THEN 60 ELSE 0

\* dtparser.isoparse(s): [ok, local, aware, offset]
isoparse(s) ==
    IF Len(s) = 1 /\ s[1] \in DateTimes
    THEN [ok |-> TRUE, local |-> DateTimeMinutes(s[1]), aware |-> FALSE, offset |-> 0]
    ELSE IF Len(s) = 2 /\ s[1] \in DateTimes /\ s[2] \in Offsets
    THEN [ok |-> TRUE, local |-> DateTimeMinutes(s[1]), aware |-> TRUE,
          offset |-> OffsetMinutes(s[2])]
    ELSE [ok |-> FALSE, local |-> 0, aware |-> FALSE, offset |-> 0]

\* parse_ts(x): the instant in UTC as a number of minutes, or None
ParseTsKeepsOffset(x) ==
    IF ~Truthy(x) THEN None
    ELSE LET dt == isoparse(PyStr(x)) IN
         IF ~dt.ok THEN None ELSE JNum(dt.local)
parse_ts(x) ==
    IF ~Truthy(x) THEN None
    ELSE LET dt == isoparse(PyStr(x)) IN
         IF ~dt.ok THEN None
         ELSE LET off == IF dt.aware THEN dt.offset ELSE 0
              IN  JNum(dt.local - off)

\* ------------------------------------------------------------------------
\* Python's float: IEEE 754 binary64, round to nearest, ties to even
\* ------------------------------------------------------------------------

\* A natural number of any size: its digits in base 2^15, the lowest first,
\* the highest not 0; no digit for 0.
DigitBits == 15
Base == 2^DigitBits

RECURSIVE NatOf(_)
NatOf(n) == IF n = 0 THEN <<>> ELSE <<n % Base>> \o NatOf(n \div Base)
NatToInt(a) == IF a = <<>> THEN 0 ELSE IF Len(a) = 1 THEN a[1] ELSE a[1] + Base * a[2]

RECURSIVE Trim(_)
Trim(a) ==
    IF a # <<>> /\ a[Len(a)] = 0 THEN Trim(SubSeq(a, 1, Len(a) - 1)) ELSE a
Digit(a, i) == IF i <= Len(a) THEN a[i] ELSE 0

RECURSIVE AddFrom(_, _, _, _)
AddFrom(a, b, i, carry) ==
    IF i > Len(a) /\ i > Len(b) THEN (IF carry = 0 THEN <<>> ELSE <<carry>>)
    ELSE LET t == Digit(a, i) + Digit(b, i) + carry IN
         <<t % Base>> \o AddFrom(a, b, i + 1, t \div Base)
NatAdd(a, b) == AddFrom(a, b, 1, 0)

\* a - b, for a >= b
RECURSIVE SubFrom(_, _, _, _)
SubFrom(a, b, i, borrow) ==
    IF i > Len(a) THEN <<>>
    ELSE LET t == Digit(a, i) - Digit(b, i) - borrow IN
         <<IF t < 0 THEN t + Base ELSE t>>
             \o SubFrom(a, b, i + 1, IF t < 0 THEN 1 ELSE 0)
NatSub(a, b) == Trim(SubFrom(a, b, 1, 0))

\* a * d, a / d and a % d for a digit d
RECURSIVE MulDigitFrom(_, _, _, _)
MulDigitFrom(a, d, i, carry) ==
    IF i > Len(a) THEN (IF carry = 0 THEN <<>> ELSE <<carry>>)
    ELSE LET t == a[i] * d + carry IN
         <<t % Base>> \o MulDigitFrom(a, d, i + 1, t \div Base)
NatMulDigit(a, d) == IF d = 0 THEN <<>> ELSE MulDigitFrom(a, d, 1, 0)
RECURSIVE DivDigitFrom(_, _, _, _)
DivDigitFrom(a, d, i, rest) ==
    IF i = 0 THEN <<>>
    ELSE LET t == rest * Base + a[i] IN
         Append(DivDigitFrom(a, d, i - 1, t % d), t \div d)
NatDivDigit(a, d) == Trim(DivDigitFrom(a, d, Len(a), 0))
RECURSIVE ModDigitFrom(_, _, _, _)
ModDigitFrom(a, d, i, rest) ==
    IF i = 0 THEN rest ELSE ModDigitFrom(a, d, i - 1, (rest * Base + a[i]) % d)
NatModDigit(a, d) == ModDigitFrom(a, d, Len(a), 0)

\* a * Base^k and a * b
ShiftDigits(a, k) == IF a = <<>> THEN <<>> ELSE [i \in 1..k |-> 0] \o a
RECURSIVE MulFrom(_, _, _)
MulFrom(a, b, j) ==
    IF j > Len(b) THEN <<>>
    ELSE NatAdd(ShiftDigits(NatMulDigit(a, b[j]), j - 1), MulFrom(a, b, j + 1))
NatMul(a, b) == MulFrom(a, b, 1)

\* -1, 0, 1 as a < b, a = b, a > b
RECURSIVE CmpFrom(_, _, _)
CmpFrom(a, b, i) ==
    IF i = 0 THEN 0
    ELSE IF a[i] # b[i] THEN (IF a[i] < b[i] THEN -1 ELSE 1)
    ELSE CmpFrom(a, b, i - 1)
NatCmp(a, b) ==
    IF Len(a) # Len(b) THEN (IF Len(a) < Len(b) THEN -1 ELSE 1)
    ELSE CmpFrom(a, b, Len(a))

\* a * 2^k, floor(a / 2^k), and the number of bits of a
ShiftLeft(a, k) == ShiftDigits(NatMulDigit(a, 2^(k % DigitBits)), k \div DigitBits)
ShiftRight(a, k) ==
    IF k \div DigitBits >= Len(a) THEN <<>>
    ELSE NatDivDigit(SubSeq(a, k \div DigitBits + 1, Len(a)), 2^(k % DigitBits))
RECURSIVE BitsOfDigit(_)
BitsOfDigit(d) == IF d = 0 THEN 0 ELSE 1 + BitsOfDigit(d \div 2)
BitLen(a) ==
    IF a = <<>> THEN 0 ELSE DigitBits * (Len(a) - 1) + BitsOfDigit(a[Len(a)])
IsOdd(a) == a # <<>> /\ a[1] % 2 = 1

\* A float that is not negative: m * 2^e, with m of 53 bits, or m and e 0.
\* Durations, counts and quantile levels are never negative, infinite or
\* subnormal here.
MantissaBits == 52 + 1
Float(m, e) == [m |-> m, e |-> e]
FZero == Float(<<>>, 0)

\* The float nearest to m * 2^e, the even one of two that are equally near:
\* m has len bits; q are its first 53 bits, s the number of bits dropped,
\* c tells whether the bits dropped are below, at or above one half.
Renormal(up, e) ==
    IF BitLen(up) > MantissaBits THEN Float(ShiftRight(up, 1), e + 1) ELSE Float(up, e)
RoundOff(q, c, e) ==
    Renormal(IF c = 1 \/ (c = 0 /\ IsOdd(q)) THEN NatAdd(q, <<1>>) ELSE q, e)
DropBits(m, e, s, q) ==
    RoundOff(q, NatCmp(NatSub(m, ShiftLeft(q, s)), ShiftLeft(<<1>>, s - 1)), e + s)
RoundBits(m, e, len) ==
    IF len <= MantissaBits
    THEN Float(ShiftLeft(m, MantissaBits - len), e - (MantissaBits - len))
    ELSE DropBits(m, e, len - MantissaBits, ShiftRight(m, len - MantissaBits))
RoundToFloat(m, e) == IF m = <<>> THEN FZero ELSE RoundBits(m, e, BitLen(m))

\* float(n) for an int n >= 0, and int(x)
FloatOfInt(n) == RoundToFloat(NatOf(n), 0)
IntOfFloat(x) == IF x.e >= 0 THEN NatToInt(ShiftLeft(x.m, x.e)) ELSE NatToInt(ShiftRight(x.m, -x.e))

\* x and y as multiples of one power of 2
LowExp(x, y) == IF x.e <= y.e THEN x.e ELSE y.e
Aligned(x, y) == ShiftLeft(x.m, x.e - LowExp(x, y))

\* x + y, x - y (for x >= y), x * y, x / d for an int d > 0, and x <= y
FAdd(x, y) == RoundToFloat(NatAdd(Aligned(x, y), Aligned(y, x)), LowExp(x, y))
FSub(x, y) == RoundToFloat(NatSub(Aligned(x, y), Aligned(y, x)), LowExp(x, y))
FMul(x, y) == RoundToFloat(NatMul(x.m, y.m), x.e + y.e)
FDiv(x, d) ==
    LET wide == ShiftLeft(x.m, 5 * DigitBits)
        sticky == IF NatModDigit(wide, d) = 0 THEN <<>> ELSE <<1>>
    IN  RoundToFloat(NatAdd(ShiftLeft(NatDivDigit(wide, d), 1), sticky),
                     x.e - 5 * DigitBits - 1)
FLe(x, y) == NatCmp(Aligned(x, y), Aligned(y, x)) <= 0
FLt(x, y) == NatCmp(Aligned(x, y), Aligned(y, x)) < 0

\* The float literals 0.50, 0.95, 0.99 of the callers of quantile, and 100.0
Q50 == Float(<<0, 0, 0, 128>>, -53)
Q95 == Float(<<26214, 19660, 6553, 243>>, -53)
Q99 == Float(<<18350, 30146, 14417, 253>>, -53)
F100 == Float(<<0, 0, 0, 200>>, -46)

\* quantile(sorted_vals, q) (utils/helpers.py, and its twin in main.py);
\* sorted_vals are floats
Interpolate(sorted_vals, lo, hi, frac) ==
    FAdd(FMul(sorted_vals[lo + 1], FSub(FloatOfInt(1), frac)),
         FMul(sorted_vals[hi + 1], frac))
QuantileFrom(sorted_vals, pos, lo) ==
    Interpolate(sorted_vals, lo,
                IF lo + 1 <= Len(sorted_vals) - 1 THEN lo + 1 ELSE Len(sorted_vals) - 1,
                FSub(pos, FloatOfInt(lo)))
QuantileAt(sorted_vals, pos) == QuantileFrom(sorted_vals, pos, IntOfFloat(pos))
quantile(sorted_vals, q) ==
    IF Len(sorted_vals) = 0 THEN FZero
    ELSE IF Len(sorted_vals) = 1 THEN sorted_vals[1]
    ELSE QuantileAt(sorted_vals, FMul(FloatOfInt(Len(sorted_vals) - 1), q))

\* ------------------------------------------------------------------------
\* The normalizers
\* ------------------------------------------------------------------------

\* A normalized event (LogEntry, Row).  Every field is a Python value; an
\* absent one is None.
LogEntry(ts, level, event_type, method, path, status_code, duration_ms, user_id, is_authenticated, error_type, error_message) ==
    [timestamp |-> ts, level |-> level, event_type |-> event_type,
     method |-> method, path |-> path, status_code |-> status_code,
     duration_ms |-> duration_ms, user_id |-> user_id,
     is_authenticated |-> is_authenticated, error_type |-> error_type,
     error_message |-> error_message]
NoEntry ==
    LogEntry(None, None, None, None, None, None, None, None, None, None, None)

\* What a call of a normalizer gives: an event ("ok"), None ("none"), or an
\* exception ("raise": raw.get on a value that is no dict).
Normalized(e) == [st |-> "ok", e |-> e]
Rejected == [st |-> "none", e |-> NoEntry]
Raised == [st |-> "raise", e |-> NoEntry]

\* str(x) if x is not None else None
StrOrNone(x) == IF IsNone(x) THEN None ELSE JStr(PyStr(x))

\* The conversion of the authentication value, as LogParser.normalize does it
ParserAuth(v) ==
    IF IsBool(v) THEN v
    ELSE IF IsNone(v) THEN None
    ELSE LET s == lower(strip(PyStr(v))) IN
         IF s \in {<<"true">>, <<"1">>, <<"yes">>, <<"false">>, <<"0">>, <<"no">>}
         THEN JBool(s \in {<<"true">>, <<"1">>, <<"yes">>})
         ELSE None

\* The conversion of the authentication value, as normalize of main.py does it
MainAuth(ia) ==
    IF IsBool(ia) THEN ia
    ELSE IF IsNone(ia) THEN None
    ELSE LET s == lower(strip(PyStr(ia))) IN
         IF s \in {<<"true">>, <<"1">>, <<"yes">>} THEN JBool(TRUE)
         ELSE IF s \in {<<"false">>, <<"0">>, <<"no">>} THEN JBool(FALSE)
         ELSE None

\* LogParser.normalize(raw)
LogParser_normalize(raw) ==
    IF ~IsDict(raw) THEN Raised
    ELSE
    LET ts == parse_ts(Or(Or(Get(raw, K("timestamp")), Get(raw, K("time"))),
                          get_nested(raw, <<K("meta"), K("timestamp")>>)))
        method == Or(Or(Get(raw, K("method")),
                        get_nested(raw, <<K("request"), K("method")>>)),
                     get_nested(raw, <<K("http"), K("method")>>))
        path == Or(Or(Or(Get(raw, K("path")),
                         get_nested(raw, <<K("request"), K("path")>>)),
                      get_nested(raw, <<K("http"), K("path")>>)),
                   Get(raw, K("endpoint")))
        status_raw == Or(Or(Or(Get(raw, K("status_code")), Get(raw, K("status"))),
                            get_nested(raw, <<K("response"), K("status_code")>>)),
                         get_nested(raw, <<K("http"), K("status")>>))
        duration_raw == Or(Or(Or(Get(raw, K("duration_ms")), Get(raw, K("latency_ms"))),
                              Get(raw, K("response_time_ms"))),
                           get_nested(raw, <<K("timing"), K("duration_ms")>>))
        is_auth_raw == Or(Or(Get(raw, K("is_authenticated")),
                             Get(raw, K("authenticated"))),
                          get_nested(raw, <<K("auth"), K("is_authenticated")>>))
    IN  IF IsNone(ts) THEN Rejected
        ELSE Normalized(LogEntry(
                ts,
                JStr(PyStr(Or(Or(Get(raw, K("level")), Get(raw, K("severity"))),
                              JStr(<<>>)))),
                JStr(PyStr(Or(Or(Get(raw, K("event_type")), Get(raw, K("type"))),
                              JStr(<<>>)))),
                StrOrNone(method),
                StrOrNone(path),
                safe_int(status_raw),
                safe_float(duration_raw),
                safe_int(Or(Get(raw, K("user_id")),
                            get_nested(raw, <<K("user"), K("id")>>))),
                ParserAuth(is_auth_raw),
                StrOrNone(Get(raw, K("error_type"))),
                StrOrNone(Get(raw, K("error_message")))))

\* normalize(d) of main.py
normalize(d) ==
    IF ~IsDict(d) THEN Raised
    ELSE
    LET ts == parse_ts(Or(Or(Get(d, K("timestamp")), Get(d, K("time"))),
                          get_nested(d, <<K("meta"), K("timestamp")>>)))
        method == Or(Or(Get(d, K("method")),
                        get_nested(d, <<K("request"), K("method")>>)),
                     get_nested(d, <<K("http"), K("method")>>))
        path == Or(Or(Or(Get(d, K("path")),
                         get_nested(d, <<K("request"), K("path")>>)),
                      get_nested(d, <<K("http"), K("path")>>)),
                   Get(d, K("endpoint")))
        status_raw ==
            IF IsNone(Get(d, K("status_code")))
            THEN Or(Or(Get(d, K("status")),
                       get_nested(d, <<K("response"), K("status_code")>>)),
                    get_nested(d, <<K("http"), K("status")>>))
            ELSE Get(d, K("status_code"))
        dur_raw ==
            IF IsNone(Get(d, K("duration_ms")))
            THEN Or(Or(Get(d, K("latency_ms")), Get(d, K("response_time_ms"))),
                    get_nested(d, <<K("timing"), K("duration_ms")>>))
            ELSE Get(d, K("duration_ms"))
        ia ==
            IF IsNone(Get(d, K("is_authenticated")))
            THEN Or(Get(d, K("authenticated")),
                    get_nested(d, <<K("auth"), K("is_authenticated")>>))
            ELSE Get(d, K("is_authenticated"))
    IN  IF IsNone(ts) THEN Rejected
        ELSE Normalized(LogEntry(
                ts,
                JStr(PyStr(Or(Or(Get(d, K("level")), Get(d, K("severity"))),
                              JStr(<<>>)))),
                JStr(PyStr(Or(Or(Get(d, K("event_type")), Get(d, K("type"))),
                              JStr(<<>>)))),
                StrOrNone(method),
                StrOrNone(path),
                safe_int(status_raw),
                safe_float(dur_raw),
                safe_int(Or(Get(d, K("user_id")),
                            get_nested(d, <<K("user"), K("id")>>))),
                MainAuth(ia),
                StrOrNone(Get(d, K("error_type"))),
                StrOrNone(Get(d, K("error_message")))))

\* ------------------------------------------------------------------------
\* Reading the store, and the window
\* ------------------------------------------------------------------------

\* The lines a reader gets from a text: each stripped, the blank ones left
\* out (LogStore.read_lines, and the loop of iter_jsonl).
StrippedLines(text) ==
    LET ls == splitlines(text) IN [i \in 1..Len(ls) |-> Strip(ls[i])]
NonBlank(line) == line # <<>>
read_lines(text) == SelectSeq(StrippedLines(text), NonBlank)

\* iter_jsonl: the values of the lines that json.loads accepts
RECURSIVE IterJsonlFrom(_, _)
IterJsonlFrom(lines, acc) ==
    IF lines = <<>> THEN acc
    ELSE LET r == loads(Head(lines)) IN
         IterJsonlFrom(Tail(lines), IF r.ok THEN Append(acc, r.v) ELSE acc)
iter_jsonl(lines) == IterJsonlFrom(lines, <<>>)

\* LogParser.parse_json(line): the value, None for a line that is no JSON
parse_json(line) == LET r == loads(line) IN IF r.ok THEN r.v ELSE None

\* What a scan of the store gives: the rows, or an exception ("raise").
Rows(rows) == [st |-> "ok", rows |-> rows]
ScanRaised == [st |-> "raise", rows |-> <<>>]

\* Aggregator.load_all_entries, over the lines read_lines yields
RECURSIVE LoadEntriesFrom(_, _)
LoadEntriesFrom(lines, acc) ==
    IF lines = <<>> THEN Rows(acc)
    ELSE LET raw == parse_json(Head(lines)) IN
         IF ~Truthy(raw) THEN LoadEntriesFrom(Tail(lines), acc)
         ELSE LET entry == LogParser_normalize(raw) IN
              IF entry.st = "raise" THEN ScanRaised
              ELSE IF entry.st = "none" THEN LoadEntriesFrom(Tail(lines), acc)
              ELSE LoadEntriesFrom(Tail(lines), Append(acc, entry.e))
load_all_entries(lines) == LoadEntriesFrom(lines, <<>>)

\* The rows normalize of main.py gives for the values iter_jsonl yields
\* (the loop of get_latest_timestamp, load_window and errors)
RECURSIVE NormalizeAllFrom(_, _)
NormalizeAllFrom(records, acc) ==
    IF records = <<>> THEN Rows(acc)
    ELSE LET r == normalize(Head(records)) IN
         IF r.st = "raise" THEN ScanRaised
         ELSE IF r.st = "none" THEN NormalizeAllFrom(Tail(records), acc)
         ELSE NormalizeAllFrom(Tail(records), Append(acc, r.e))
NormalizeAll(records) == NormalizeAllFrom(records, <<>>)

\* max(e.timestamp for e in entries), None for no entries
LatestOf(entries) ==
    IF entries = <<>> THEN None
    ELSE JNum(MaxOf({entries[i].timestamp.n : i \in 1..Len(entries)}))

\* Aggregator.filter_by_window(entries, minutes)
FilterExclusive(entries, minutes) ==
    IF entries = <<>> THEN <<>>
    ELSE LET latest == LatestOf(entries).n
             start == latest - minutes
             InWindow(e) == start < e.timestamp.n /\ e.timestamp.n <= latest
         IN  SelectSeq(entries, InWindow)
filter_by_window(entries, minutes) ==
    IF entries = <<>> THEN <<>>
    ELSE LET latest == LatestOf(entries).n
             start == latest - minutes
             InWindow(e) == start <= e.timestamp.n /\ e.timestamp.n <= latest
         IN  SelectSeq(entries, InWindow)

\* get_latest_timestamp() of main.py, over the values one scan yields
get_latest_timestamp(records) ==
    LET all == NormalizeAll(records) IN
    IF all.st = "raise" THEN [st |-> "raise", latest |-> None]
    ELSE [st |-> "ok", latest |-> LatestOf(all.rows)]

\* load_window(minutes) of main.py: first is what the scan of
\* get_latest_timestamp yields, second what the scan of the loop yields.
WindowFrom(latest, second, minutes) ==
    LET start == latest.n - minutes
        all == NormalizeAll(second)
        InWindow(r) == start <= r.timestamp.n /\ r.timestamp.n <= latest.n
    IN  IF all.st = "raise" THEN ScanRaised
        ELSE Rows(SelectSeq(all.rows, InWindow))
load_window(first, second, minutes) ==
    LET latest == get_latest_timestamp(first) IN
    IF latest.st = "raise" THEN ScanRaised
    ELSE IF IsNone(latest.latest) THEN Rows(<<>>)
    ELSE WindowFrom(latest.latest, second, minutes)

\* ------------------------------------------------------------------------
\* The aggregations (services/aggregator.py, and the endpoints of main.py)
\* ------------------------------------------------------------------------

\* LogParser.is_request(entry), and is_request(r) of main.py
IsRequestByPath(entry) == Truthy(entry.path)
is_request(entry) == Truthy(entry.path) /\ Truthy(entry.method)

\* LogParser.is_error(entry)
IsErrorByStatus(entry) == ~IsNone(entry.status_code) /\ entry.status_code.n >= 400
is_error(entry) ==
    \/ ~IsNone(entry.status_code) /\ entry.status_code.n >= 400
    \/ upper(IF Truthy(entry.level) THEN entry.level.s ELSE <<>>) = <<"ERROR">>

\* is_error_row(r) of main.py
is_error_row(r) ==
    \/ ~IsNone(r.status_code) /\ r.status_code.n >= 400
    \/ upper(IF Truthy(r.level) THEN r.level.s ELSE <<>>) = <<"ERROR">>

\* list.sort(key=..., reverse=...): the items in the order of their keys,
\* descending with reverse, items of equal keys in the order they had.  The
\* keys are integers, one per item.
RECURSIVE InsertStable(_, _, _)
InsertStable(sorted, x, reverse) ==
    IF sorted = <<>> THEN <<x>>
    ELSE IF (IF reverse THEN Head(sorted).key < x.key ELSE x.key < Head(sorted).key)
    THEN <<x>> \o sorted
    ELSE <<Head(sorted)>> \o InsertStable(Tail(sorted), x, reverse)
ReverseSeq(s) == [i \in 1..Len(s) |-> s[Len(s) + 1 - i]]
RECURSIVE SortFrom(_, _, _)
SortFrom(pairs, acc, reverse) ==
    IF pairs = <<>> THEN acc
    ELSE SortFrom(Tail(pairs), InsertStable(acc, Head(pairs), reverse), reverse)
SortThenReverse(items, keys, reverse) ==
    LET pairs == [i \in 1..Len(items) |-> [key |-> keys[i], item |-> items[i]]]
        sorted == SortFrom(pairs, <<>>, FALSE)
    IN  IF reverse THEN ReverseSeq([i \in 1..Len(sorted) |-> sorted[i].item])
        ELSE [i \in 1..Len(sorted) |-> sorted[i].item]
ListSort(items, keys, reverse) ==
    LET pairs == [i \in 1..Len(items) |-> [key |-> keys[i], item |-> items[i]]]
        sorted == SortFrom(pairs, <<>>, reverse)
    IN  [i \in 1..Len(sorted) |-> sorted[i].item]

\* The place of each float among the others: as many as are below it
FloatRanks(vals) ==
    [i \in 1..Len(vals) |-> Cardinality({j \in 1..Len(vals) : FLt(vals[j], vals[i])})]
\* sorted(vals) for floats
sorted(vals) == ListSort(vals, FloatRanks(vals), FALSE)
\* sum(vals): 0 + vals[0] + vals[1] + ..., from the left
RECURSIVE SumFrom(_, _)
SumFrom(vals, acc) == IF vals = <<>> THEN acc ELSE SumFrom(Tail(vals), FAdd(acc, Head(vals)))
sum(vals) == SumFrom(vals, FZero)
\* seq[:limit], for a limit >= 0
UpTo(seq, limit) == SubSeq(seq, 1, IF limit < Len(seq) THEN limit ELSE Len(seq))

\* [e.duration_ms for e in items if e.duration_ms is not None], sorted
HasDuration(e) == ~IsNone(e.duration_ms)
DurationsOf(items) ==
    LET known == SelectSeq(items, HasDuration) IN
    sorted([i \in 1..Len(known) |-> FloatOfInt(known[i].duration_ms.n)])
\* sum(1 for e in items if e.status_code and e.status_code >= 400)
IsFailure(e) == Truthy(e.status_code) /\ e.status_code.n >= 400
\* (errors / count * 100.0) if count else 0.0
PerCent(part, whole) ==
    IF whole = 0 THEN FZero ELSE FMul(FDiv(FloatOfInt(part), whole), F100)
\* (sum(durs) / len(durs)) if durs else 0.0
Average(durs) == IF durs = <<>> THEN FZero ELSE FDiv(sum(durs), Len(durs))

\* quantile(durations, q) if durations else 0.0
QuantileOrZero(durations, q) == IF durations = <<>> THEN FZero ELSE quantile(durations, q)

\* Aggregator.compute_metrics(entries): the metrics of the requests, whose
\* sorted durations are durations
HasStatus(e) == ~IsNone(e.status_code)
HasUser(e) == ~IsNone(e.user_id)
IsAuth(e) == e.is_authenticated = JBool(TRUE)
CountBy(keys, requests, KeyOf(_)) ==
    [k \in keys |-> Cardinality({i \in 1..Len(requests) : KeyOf(requests[i]) = k})]
StatusOf(e) == e.status_code.n
MethodOf(e) == e.method.s
UserOf(e) == e.user_id.n
KeysOf(requests, KeyOf(_)) == {KeyOf(requests[i]) : i \in 1..Len(requests)}
Metrics(requests, durations) ==
    [total_requests |-> Len(requests),
     error_count |-> Len(SelectSeq(requests, IsFailure)),
     error_rate |-> PerCent(Len(SelectSeq(requests, IsFailure)), Len(requests)),
     avg_response_time |-> Average(durations),
     p50_response_time |-> QuantileOrZero(durations, Q50),
     p95_response_time |-> QuantileOrZero(durations, Q95),
     p99_response_time |-> QuantileOrZero(durations, Q99),
     requests_by_status |->
        CountBy(KeysOf(SelectSeq(requests, HasStatus), StatusOf),
                SelectSeq(requests, HasStatus), StatusOf),
     requests_by_method |-> CountBy(KeysOf(requests, MethodOf), requests, MethodOf),
     unique_users |-> Cardinality(KeysOf(SelectSeq(requests, HasUser), UserOf)),
     authenticated_requests |-> Len(SelectSeq(requests, IsAuth))]
RequestMetrics(requests) == Metrics(requests, DurationsOf(requests))
compute_metrics(entries) == RequestMetrics(SelectSeq(entries, is_request))

\* The paths in the order the loop over the requests first meets them: the
\* keys of the dict buckets
RECURSIVE FirstMet(_, _)
FirstMet(requests, acc) ==
    IF requests = <<>> THEN acc
    ELSE FirstMet(Tail(requests),
                  IF \E i \in 1..Len(acc) : acc[i] = Head(requests).path.s
                  THEN acc ELSE Append(acc, Head(requests).path.s))
\* buckets[path]
Bucket(requests, path) == LET OnPath(e) == e.path.s = path IN SelectSeq(requests, OnPath)

\* EndpointStat(...) for the items of one path, errors of them failed and
\* durs their sorted durations
EndpointStat(path, items, errors, durs) ==
    [path |-> path,
     count |-> Len(items),
     errors |-> errors,
     avg_response_time |-> Average(durs),
     p95_response_time |-> QuantileOrZero(durs, Q95),
     error_rate |-> PerCent(errors, Len(items))]

\* stats.sort(key=key_fn, reverse=reverse); return stats[:limit]
SortKeysOf(stats, sort_by) ==
    IF lower(sort_by) = <<"p95">>
    THEN FloatRanks([i \in 1..Len(stats) |-> stats[i].p95_response_time])
    ELSE [i \in 1..Len(stats) |-> stats[i].count]
SortedStats(stats, limit, sort_by, order) ==
    UpTo(ListSort(stats, SortKeysOf(stats, sort_by), lower(order) # <<"asc">>), limit)

\* Aggregator.compute_endpoints(entries, limit, sort_by, order)
BucketStat(path, items) ==
    EndpointStat(path, items, Len(SelectSeq(items, IsFailure)), DurationsOf(items))
StatsOf(requests, paths) ==
    [i \in 1..Len(paths) |-> BucketStat(paths[i], Bucket(requests, paths[i]))]
IsPathRequest(e) == is_request(e) /\ Truthy(e.path)
RequestStats(requests) == StatsOf(requests, FirstMet(requests, <<>>))
compute_endpoints(entries, limit, sort_by, order) ==
    SortedStats(RequestStats(SelectSeq(entries, IsPathRequest)), limit, sort_by, order)

\* endpoints(minutes, limit, sort_by, order) of main.py, over the rows
\* load_window returned
HasFailed(r) == ~IsNone(r.status_code) /\ r.status_code.n >= 400
BucketRow(path, items) ==
    EndpointStat(path, items, Len(SelectSeq(items, HasFailed)), DurationsOf(items))
RowsOf(reqs, paths) ==
    [i \in 1..Len(paths) |-> BucketRow(paths[i], Bucket(reqs, paths[i]))]
RequestRows(reqs) == RowsOf(reqs, FirstMet(reqs, <<>>))
endpoints(rows, limit, sort_by, order) ==
    SortedStats(RequestRows(SelectSeq(rows, IsPathRequest)), limit, sort_by, order)

\* Timestamps as sort keys
TimestampsOf(entries) == [i \in 1..Len(entries) |-> entries[i].timestamp.n]

\* Aggregator.compute_errors(entries, limit)
compute_errors(entries, limit) ==
    LET errors == SelectSeq(entries, is_error) IN
    UpTo(ListSort(errors, TimestampsOf(errors), TRUE), limit)

\* errors(limit) of main.py, over the values iter_jsonl yields
errors(records, limit) ==
    LET rows == NormalizeAll(records) IN
    IF rows.st = "raise" THEN ScanRaised
    ELSE LET err_rows == SelectSeq(rows.rows, is_error_row) IN
         Rows(UpTo(ListSort(err_rows, TimestampsOf(err_rows), TRUE), limit))

\* ------------------------------------------------------------------------
\* Raw records for the normalizers
\* ------------------------------------------------------------------------

\* The fallback chain of each field, in the order the normalizers try it.
TimestampChain == <<<<K("timestamp")>>, <<K("time")>>, <<K("meta"), K("timestamp")>>>>
MethodChain ==
    <<<<K("method")>>, <<K("request"), K("method")>>, <<K("http"), K("method")>>>>
PathChain ==
    <<<<K("path")>>, <<K("request"), K("path")>>, <<K("http"), K("path")>>,
      <<K("endpoint")>>>>
StatusChain ==
    <<<<K("status_code")>>, <<K("status")>>, <<K("response"), K("status_code")>>,
      <<K("http"), K("status")>>>>
DurationChain ==
    <<<<K("duration_ms")>>, <<K("latency_ms")>>, <<K("response_time_ms")>>,
      <<K("timing"), K("duration_ms")>>>>
AuthChain ==
    <<<<K("is_authenticated")>>, <<K("authenticated")>>,
      <<K("auth"), K("is_authenticated")>>>>
UserChain == <<<<K("user_id")>>, <<K("user"), K("id")>>>>

\* In a choice of values for the keys of a chain: the key is not in the record.
Absent == PyVal("absent", 0, <<>>, <<>>, <<>>)

\* The record that holds, for each key path of the chain, the value chosen
\* for it (a nested path a.b as a: {b: value}), after the items of base.
RECURSIVE WithChain(_, _, _)
WithChain(base, chain, choice) ==
    IF chain = <<>> THEN base
    ELSE LET path == Head(chain)
             v == Head(choice)
             item == IF Len(path) = 1 THEN v ELSE JDict(<<path[2]>>, <<v>>)
             d == SetItem(base.k, base.a, path[1], item)
         IN  WithChain(IF v = Absent THEN base ELSE JDict(d.ks, d.vs),
                       Tail(chain), Tail(choice))

\* Every choice of one value of vals, or none, for each key of the chain.
Choices(chain, vals) == [1..Len(chain) -> vals \cup {Absent}]
RecordsOver(base, chain, vals) ==
    {WithChain(base, chain, c) : c \in Choices(chain, vals)}

TS0900 == JStr(<<"2025-01-01T09:00">>)
TS1000 == JStr(<<"2025-01-01T10:00">>)
TS1100 == JStr(<<"2025-01-01T11:00">>)
Stamped == JDict(<<K("timestamp")>>, <<TS0900>>)

StatusValues == {JNum(0), JNum(200), JStr(<<"500">>), JStr(<<"abc">>), JNull}
DurationValues == {JNum(0), JNum(7), JStr(<<BLANK, "7">>), JNull}
MethodValues == {JStr(<<"GET">>), JStr(<<>>), JNum(0), JNull}
PathValues == {JStr(<<"/a">>), JStr(<<>>), JNull}
UserValues == {JNum(0), JNum(7), JStr(<<"7">>), JStr(<<"abc">>), JNull, JBool(FALSE)}
AuthValues ==
    {JBool(TRUE), JBool(FALSE), JNull, JStr(<<BLANK, "TRUE", BLANK>>),
     JStr(<<"No">>), JStr(<<"maybe">>), JNum(0), JNum(1)}
TimestampValues ==
    {TS0900, JStr(<<"2025-01-01T10:00", "+01:00">>), JStr(<<"2025-01-01T11:00", "Z">>),
     JStr(<<"yesterday">>), JStr(<<>>), JNum(0), JNull}

\* A record whose nested container is no dict, and values that are no dict.
NotARecord ==
    {JNum(0), JNum(7), JStr(<<"GET">>), JList(<<>>), JList(<<JNum(1)>>), JNull,
     JBool(TRUE)}
OddRecords ==
    {JDict(<<>>, <<>>),
     JDict(<<K("timestamp"), K("auth"), K("http"), K("user")>>,
           <<TS0900, JNum(7), JStr(<<"x">>), JList(<<>>)>>)}

RawRecords ==
    RecordsOver(Stamped, StatusChain, StatusValues)
    \cup RecordsOver(Stamped, DurationChain, DurationValues)
    \cup RecordsOver(Stamped, MethodChain, MethodValues)
    \cup RecordsOver(Stamped, PathChain, PathValues)
    \cup RecordsOver(Stamped, UserChain, UserValues)
    \cup RecordsOver(Stamped, AuthChain, AuthValues)
    \cup RecordsOver(JDict(<<>>, <<>>), TimestampChain, TimestampValues)
    \cup OddRecords

\* ------------------------------------------------------------------------
\* The ingest writer
\* ------------------------------------------------------------------------

\* A byte sequence that is no UTF-8, which decode(errors="ignore") drops.
Bad == Tok("bad")
IsDecodable(tk) == tk.k # "bad"
\* content.decode("utf-8", errors="ignore")
Decode(content) == SelectSeq(content, IsDecodable)

\* The keys under which an uploaded object may hold the list, in the order
\* they are tried.
WrapKeys == <<"logs", "events", "entries", "data", "items">>

\* The first of the keys that is in obj and holds a list; 0 when none does.
FirstListKey(obj) ==
    LET hits == {j \in 1..Len(WrapKeys) :
                    HasKey(obj, K(WrapKeys[j])) /\ IsList(Item(obj, K(WrapKeys[j])))}
    IN  IF hits = {} THEN 0 ELSE MinOf(hits)

\* The mode a call reports: its name, and the key the name is made with.
\* upload_log_file names the wrapped and the fallback modes its own way.
Mode(name, key) == [name |-> name, key |-> key]
NoMode == Mode("", "")
WrappedModeName(impl) ==
    IF impl = "save_upload" THEN "json_object.{key}" ELSE "json_object.{key}_list"
RawModeName(impl) ==
    IF impl = "save_upload" THEN "raw_jsonl" ELSE "raw_jsonl_fallback"
\* What a call raises for an empty payload.
EmptyError(impl) ==
    IF impl = "save_upload" THEN "ValueError" ELSE "HTTPException 400"

\* What the call does with the stripped text: the items it hands to
\* _write_jsonl and the mode, or the fallback.
Plan(kind, items, mode) == [kind |-> kind, items |-> items, mode |-> mode]
PlanOf(text, impl) ==
    LET obj == loads(text) IN
    IF obj.ok /\ IsList(obj.v) THEN Plan("items", obj.v.a, Mode("json_array", ""))
    ELSE IF obj.ok /\ IsDict(obj.v)
    THEN LET j == FirstListKey(obj.v) IN
         IF j # 0
         THEN Plan("items", Item(obj.v, K(WrapKeys[j])).a,
                   Mode(WrappedModeName(impl), WrapKeys[j]))
         ELSE Plan("items", <<obj.v>>, Mode("single_json_object", ""))
    ELSE Plan("fallback", <<>>, Mode(RawModeName(impl), ""))

\* What a call returns or raises.
Result(status, mode, written) == [status |-> status, mode |-> mode, written |-> written]
NoResult == Result("none", NoMode, 0)

\* The line _write_jsonl writes for one item: none for an item that is no dict
LineOf(item) == IF IsDict(item) THEN Chars(dumps(item) \o <<NL>>) ELSE <<>>

\* The text the fallback writes, and the count it reports
RawText(text) == text \o (IF text # <<>> /\ text[Len(text)].k = "nl" THEN <<>> ELSE <<NL>>)
NotBlankLine(ln) == Strip(ln) # <<>>
RawLineCount(text) == Len(SelectSeq(splitlines(text), NotBlankLine))

\* open(path, "w"): the file is emptied as it is opened
OpenAppend(old) == old
OpenForWrite(old) == <<>>

\* ------------------------------------------------------------------------
\* The payloads
\* ------------------------------------------------------------------------

\* The longest list uploaded.
MaxItems == 2

ObjStamped ==
    JDict(<<K("timestamp"), K("msg")>>, <<TS1100, JStr(<<"x", LF, "y">>)>>)
ObjPlain == JDict(<<K("msg")>>, <<JStr(<<"hi">>)>>)
Elems == {ObjStamped, JDict(<<>>, <<>>), JNum(7)}

SeqsUpTo(S, n) == UNION {[1..m -> S] : m \in 0..n}
ItemLists == SeqsUpTo(Elems, MaxItems)

\* A JSON document as a client writes it over several lines.
Pretty(items) ==
    <<Tok("["), NL>>
    \o FlattenSeq([i \in 1..Len(items) |->
          (IF i > 1 THEN <<Tok(","), NL>> ELSE <<>>) \o <<SP>> \o dumps(items[i])])
    \o <<NL, Tok("]"), NL>>

\* The list an object holds under a key: it names the key, and has an
\* element that is no object.
ListUnder(key) == <<JDict(<<K("src")>>, <<JStr(<<key>>)>>), JNum(7)>>
WrapValues(key) == {JNum(7), JList(ListUnder(key))}

\* The objects with one or two of the keys, the later key written first,
\* each key holding its list or a number.
KeyPairs == {S \in SUBSET (1..Len(WrapKeys)) : Cardinality(S) \in {1, 2}}
WrappedOver(S) ==
    LET hi == MaxOf(S)
        lo == MinOf(S)
    IN  IF hi = lo
        THEN {JDict(<<K(WrapKeys[hi])>>, <<v>>) : v \in WrapValues(WrapKeys[hi])}
        ELSE {JDict(<<K(WrapKeys[hi]), K(WrapKeys[lo])>>, <<v, w>>) :
                 v \in WrapValues(WrapKeys[hi]), w \in WrapValues(WrapKeys[lo])}
WrappedObjects ==
    UNION {WrappedOver(S) : S \in KeyPairs}
    \cup {JDict(<<K("foo")>>, <<JStr(<<"bar">>)>>),
          JDict(<<K("events"), K("logs")>>, <<JList(ListUnder("events")), JList(<<>>)>>)}

Scalars == {JNum(7), JStr(<<"str">>), JNull, JBool(TRUE)}

\* Texts that are no single JSON document: JSONL, with lines that are no
\* JSON, no object, blank.
RawTexts ==
    {dumps(ObjStamped) \o <<NL>> \o dumps(ObjPlain),
     dumps(ObjStamped) \o <<NL, NL, Junk, NL, TNum(0), NL, SP>> \o dumps(ObjPlain),
     dumps(ObjPlain) \o <<NL, Tok("["), TNum(1), Tok("]")>>,
     <<Tok("{"), TStr(K("msg")), Tok(":"), TStr(<<"x", LF, "y">>), Tok("}")>>}

\* JSON documents with a string that holds the escape of a lone surrogate:
\* an array of two objects, a wrapped list, a single object.
SurrogateStr == TStr(<<EscSURROGATE>>)
SurrogateTexts ==
    {<<Tok("[")>> \o dumps(ObjPlain)
        \o <<Tok(","), SP, Tok("{"), TStr(K("a")), Tok(":"), SP, SurrogateStr,
             Tok("}"), Tok("]")>>,
     <<Tok("{"), TStr(K("logs")), Tok(":"), SP, Tok("["), Tok("{"), TStr(K("a")),
       Tok(":"), SP, SurrogateStr, Tok("}"), Tok("]"), Tok("}")>>,
     <<Tok("{"), TStr(K("foo")), Tok(":"), SP, SurrogateStr, Tok("}")>>}

EmptyPayloads == {<<>>, <<SP, NL>>, <<Bad>>}

Payloads ==
    {Pretty(items) : items \in ItemLists}
    \cup {dumps(obj) : obj \in WrappedObjects}
    \cup {<<SP>> \o dumps(v) \o <<NL>> : v \in Scalars}
    \cup RawTexts
    \cup SurrogateTexts
    \cup EmptyPayloads
    \cup {<<Bad>> \o dumps(ObjPlain)}

Impls == {"save_upload", "upload_log_file"}
Queries == {"load_all_entries", "get_latest_timestamp"}

\* ------------------------------------------------------------------------
\* The store: ingest and query, step by step
\* ------------------------------------------------------------------------

NoQuery == [st |-> "none", rows |-> <<>>, latest |-> None]
\* No call has returned yet.
NoPayload == <<Tok("none")>>

StoreInit ==
    /\ file = <<>>
    /\ wpc = "idle"
    /\ wimpl = ""
    /\ witems = <<>>
    /\ wresult = NoResult
    /\ wpayload = NoPayload
    /\ wstored = NoPayload
    /\ wprev = <<>>
    /\ rpc = "idle"
    /\ rquery = ""
    /\ rlatest = None
    /\ rpos = 0
    /\ racc = <<>>
    /\ rbefore = <<>>
    /\ roverlap = 0
    /\ qres = NoQuery

\* if not content, if not text: the payload is rejected before any file is
\* opened.
RejectsNoBytes(content) == content = <<>>
Rejects(content) == content = <<>> \/ Strip(Decode(content)) = <<>>

\* save_upload(content), upload_log_file(file), up to the return, the raise
\* or the open of the file: the checks of the payload, json.loads, the
\* choice of the items, open(path, "w") in _write_jsonl.
IngestCall(impl, content) ==
    /\ wpc = "idle"
    /\ wpayload' = content
    /\ IF Rejects(content)
       THEN /\ wresult' = Result("error", Mode(EmptyError(impl), ""), 0)
            /\ UNCHANGED <<file, wpc, wimpl, witems, wstored>>
       ELSE \E plan \in {PlanOf(Strip(Decode(content)), impl)} :
               /\ file' = IF plan.kind = "items" THEN OpenForWrite(file) ELSE file
               /\ wpc' = plan.kind
               /\ wimpl' = impl
               /\ witems' = plan.items
               /\ wresult' = Result("running", plan.mode, 0)
               /\ wstored' = NoPayload
    /\ UNCHANGED queryVars

\* LogStore.save_upload(content)
SaveUpload(content) == IngestCall("save_upload", content)
\* upload_log_file(file)
UploadLogFile(content) == IngestCall("upload_log_file", content)

\* One turn of the loop of _write_jsonl: an item that is a dict is written
\* as one line and counted.  A line that cannot be encoded raises out of the
\* loop: the file is closed with the lines before it, except Exception
\* passes, and the call goes on to the fallback.
WriteItem ==
    /\ wpc = "items"
    /\ witems # <<>>
    /\ IF IsDict(Head(witems)) /\ ~Encodable(dumps(Head(witems)))
       THEN /\ wpc' = "fallback"
            /\ witems' = <<>>
            /\ wresult' = Result("running", Mode(RawModeName(wimpl), ""), 0)
            /\ UNCHANGED file
       ELSE /\ file' = file \o LineOf(Head(witems))
            /\ wresult' = [wresult EXCEPT !.written =
                              IF IsDict(Head(witems)) THEN @ + 1 ELSE @]
            /\ witems' = Tail(witems)
            /\ UNCHANGED wpc
    /\ UNCHANGED <<wimpl, wpayload, wstored, queryVars, metVars>>

\* The end of _write_jsonl: the file is closed, the call returns.
CloseItems ==
    /\ wpc = "items"
    /\ witems = <<>>
    /\ wpc' = "idle"
    /\ wimpl' = ""
    /\ wresult' = [wresult EXCEPT !.status = "ok"]
    /\ wstored' = wpayload
    /\ UNCHANGED <<file, witems, wpayload, queryVars, metVars>>

\* The fallback opens the file: open(path, "w").
OpenRaw ==
    /\ wpc = "fallback"
    /\ file' = OpenForWrite(file)
    /\ wpc' = "raw"
    /\ UNCHANGED <<wimpl, witems, wresult, wpayload, wstored, queryVars, metVars>>

\* The fallback writes the stripped text as it is and counts its lines; the
\* call returns.
WriteRaw ==
    /\ wpc = "raw"
    /\ \E text \in {Strip(Decode(wpayload))} :
          /\ file' = file \o Chars(RawText(text))
          /\ wresult' = [wresult EXCEPT !.status = "ok",
                                        !.written = RawLineCount(text)]
    /\ wpc' = "idle"
    /\ wimpl' = ""
    /\ wstored' = wpayload
    /\ UNCHANGED <<witems, wpayload, queryVars, metVars>>

\* A query opens the file.
ReadStart(q) ==
    /\ rpc = "idle"
    /\ rpc' = "reading"
    /\ rquery' = q
    /\ rlatest' = None
    /\ rpos' = 0
    /\ racc' = <<>>
    /\ qres' = NoQuery
    /\ UNCHANGED ingestVars

\* Where the line that starts after pos ends: at the next line end, or at
\* the end of the file.
LineEnd(text, pos) ==
    MinOf({j \in (pos + 1)..Len(text) : text[j].k = "nl" \/ j = Len(text)})

\* The reader takes the next line of the file as it is now; a blank line is
\* not yielded.
ReadLine ==
    /\ rpc \in {"reading", "rescan"}
    /\ rpos < Len(file)
    /\ LET j == LineEnd(file, rpos)
           line == Strip(SubSeq(file, rpos + 1, j))
       IN  /\ rpos' = j
           /\ racc' = IF line # <<>> THEN Append(racc, line) ELSE racc
    /\ UNCHANGED <<ingestVars, rpc, rquery, rlatest, qres, metVars>>

\* The window of the metrics endpoint when the caller names none.
DefaultMinutes == 60

\* What the query makes of the lines it read.
QueryResult(q, lines) ==
    IF q = "load_all_entries"
    THEN LET all == load_all_entries(lines) IN
         [st |-> all.st, rows |-> all.rows, latest |-> LatestOf(all.rows)]
    ELSE LET records == iter_jsonl(lines)
             got == get_latest_timestamp(records)
         IN  [st |-> got.st, rows |-> NormalizeAll(records).rows,
              latest |-> got.latest]

\* The reader is at the end of the file: the query returns, or raises.
ReadEnd ==
    /\ rpc = "reading"
    /\ rquery # "load_window"
    /\ rpos >= Len(file)
    /\ rpc' = "done"
    /\ qres' = QueryResult(rquery, racc)
    /\ UNCHANGED <<ingestVars, rquery, rlatest, rpos, racc, metVars>>

\* load_window: get_latest_timestamp is at the end of the file.  With no
\* event it returns None and load_window returns []; else load_window opens
\* the file again for its own loop.
ScanAgain ==
    /\ rpc = "reading"
    /\ rquery = "load_window"
    /\ rpos >= Len(file)
    /\ \E got \in {get_latest_timestamp(iter_jsonl(racc))} :
          IF got.st = "raise" \/ IsNone(got.latest)
          THEN /\ rpc' = "done"
               /\ qres' = [st |-> got.st, rows |-> <<>>, latest |-> None]
               /\ UNCHANGED <<rlatest, rpos, racc>>
          ELSE /\ rpc' = "rescan"
               /\ rlatest' = got.latest
               /\ rpos' = 0
               /\ racc' = <<>>
               /\ UNCHANGED qres
    /\ UNCHANGED <<ingestVars, rquery, metVars>>

\* load_window: its own loop is at the end of the file; it returns the rows
\* between latest - minutes and latest.
WindowEnd ==
    /\ rpc = "rescan"
    /\ rpos >= Len(file)
    /\ rpc' = "done"
    /\ \E got \in {WindowFrom(rlatest, iter_jsonl(racc), DefaultMinutes)} :
          qres' = [st |-> got.st, rows |-> got.rows, latest |-> rlatest]
    /\ UNCHANGED <<ingestVars, rquery, rlatest, rpos, racc, metVars>>

\* The answer is delivered: the handler's state is gone.
QueryReturn ==
    /\ rpc = "done"
    /\ rpc' = "idle"
    /\ rquery' = ""
    /\ rlatest' = None
    /\ rpos' = 0
    /\ racc' = <<>>
    /\ qres' = NoQuery
    /\ UNCHANGED ingestVars

\* ------------------------------------------------------------------------
\* The normalizers applied to one raw record
\* ------------------------------------------------------------------------

Pending == [st |-> "pending", e |-> NoEntry]

NormIdle ==
    /\ nraw = None
    /\ nmain = Pending
    /\ nparser = Pending

CallNormalize ==
    /\ nmain = Pending
    /\ nmain' = normalize(nraw)
    /\ UNCHANGED <<nraw, nparser>>

CallLogParserNormalize ==
    /\ nparser = Pending
    /\ nparser' = LogParser_normalize(nraw)
    /\ UNCHANGED <<nraw, nmain>>

\* ------------------------------------------------------------------------
\* The window applied to one store content
\* ------------------------------------------------------------------------

\* The most records in the store, and the window sizes and clocks tried.
MaxEvents == 3
WindowMinutes == {1, 59, 60, 120}
Clocks == {600, 720}

Stamp(ts, path) == JDict(<<K("timestamp"), K("path")>>, <<ts, JStr(<<path>>)>>)
WindowRecords ==
    {Stamp(TS0900, "/a"), Stamp(TS1000, "/b"), Stamp(JStr(<<"2025-01-01T10:01">>), "/c"),
     Stamp(TS1100, "/d"), JDict(<<K("path")>>, <<JStr(<<"/e">>)>>)}

NotCalled == [st |-> "pending", rows |-> <<>>]

WindowIdle ==
    /\ wrecords = <<>>
    /\ wminutes = 1
    /\ wnow = 0
    /\ wagg = NotCalled
    /\ wmain = NotCalled

\* The lines of the store that holds the records, one per line.
StoreLines(records) == [i \in 1..Len(records) |-> dumps(records[i])]

\* filter_by_window(load_all_entries(), minutes), as the aggregator's
\* callers compose them
CallFilterByWindow ==
    /\ wagg = NotCalled
    /\ LET all == load_all_entries(StoreLines(wrecords)) IN
       wagg' = IF all.st = "raise" THEN ScanRaised
               ELSE Rows(filter_by_window(all.rows, wminutes))
    /\ UNCHANGED <<wrecords, wminutes, wnow, wmain>>

\* load_window(minutes), with no ingest between its two scans
CallLoadWindow ==
    /\ wmain = NotCalled
    /\ LET records == iter_jsonl(StoreLines(wrecords)) IN
       wmain' = load_window(records, records, wminutes)
    /\ UNCHANGED <<wrecords, wminutes, wnow, wagg>>

\* ------------------------------------------------------------------------
\* quantile applied to one list of values
\* ------------------------------------------------------------------------

\* The longest list of values.
MaxSamples == 4

\* The values 10.0, 20.0, 30.0, 40.0 and 125.21.
F10 == Float(<<0, 0, 0, 160>>, -49)
F20 == Float(<<0, 0, 0, 160>>, -48)
F25 == Float(<<0, 0, 0, 200>>, -48)
F30 == Float(<<0, 0, 0, 240>>, -48)
F40 == Float(<<0, 0, 0, 160>>, -47)
F125_21 == Float(<<2621, 18350, 13762, 250>>, -46)
SampleValues == {F10, F20, F30, F40, F125_21}
QuantileLevels == {Q50, Q95, Q99}

\* sorted(...) leaves the list ascending
IsAscending(v) == \A i \in 1..(Len(v) - 1) : FLe(v[i], v[i + 1])
SortedSamples == {v \in SeqsUpTo(SampleValues, MaxSamples) : IsAscending(v)}

NotReturned == [st |-> "pending", v |-> FZero]
Returned(x) == [st |-> "ok", v |-> x]

QuantIdle ==
    /\ svals = <<>>
    /\ sq = FZero
    /\ sres = NotReturned

CallQuantile ==
    /\ sres = NotReturned
    /\ sres' = Returned(quantile(svals, sq))
    /\ UNCHANGED <<svals, sq>>

\* ------------------------------------------------------------------------
\* The aggregations applied to one store content
\* ------------------------------------------------------------------------

\* The events of the store: requests on /a, /b and /c, an event without a
\* method, and errors by status and by level, two of them of 09:00.
Event(ts, method, path, status, level, dur) ==
    JDict(<<K("timestamp"), K("method"), K("path"), K("status_code"), K("level"),
            K("duration_ms")>>,
          <<ts, method, path, status, level, dur>>)
EventRecords ==
    {Event(TS0900, JStr(<<"GET">>), JStr(<<"/a">>), JNum(200), JStr(<<"INFO">>), JNum(100)),
     Event(TS1000, JStr(<<"GET">>), JStr(<<"/a">>), JNum(500), JStr(<<"INFO">>), JNum(200)),
     Event(TS1100, JStr(<<"GET">>), JStr(<<"/b">>), JNum(200), JStr(<<"error">>), JNum(50)),
     Event(TS1000, JNull, JStr(<<"/a">>), JNum(500), JStr(<<"INFO">>), JNum(100)),
     Event(TS0900, JStr(<<"POST">>), JStr(<<"/b">>), JNum(404), JStr(<<"ERROR">>), JNull),
     Event(TS1100, JStr(<<"GET">>), JStr(<<"/c">>), JNull, JStr(<<"Info">>), JNum(100))}
Limits == {1, 2}
SortKeys == {<<"count">>, <<"p95">>}
Orders == {<<"asc">>, <<"desc">>}
AggMinutes == {DefaultMinutes}

NoCall == [op |-> "none", limit |-> 0, sort_by |-> <<>>, order |-> <<>>, st |-> "pending", out |-> <<>>]
Called(op, limit, sort_by, order, st, out) ==
    [op |-> op, limit |-> limit, sort_by |-> sort_by, order |-> order, st |-> st, out |-> out]
AggIdle == acall = NoCall

\* The entries an aggregation is given: load_all_entries(), and the window
\* of it
AllEntries == load_all_entries(StoreLines(wrecords))
WindowEntries ==
    LET all == AllEntries IN
    IF all.st = "raise" THEN all ELSE Rows(filter_by_window(all.rows, wminutes))
\* The rows load_window(minutes) returns, with no ingest between its scans
WindowRows ==
    load_window(iter_jsonl(StoreLines(wrecords)), iter_jsonl(StoreLines(wrecords)), wminutes)

CallComputeMetrics ==
    /\ acall.op = "none"
    /\ \E in \in {WindowEntries} :
          acall' = Called("compute_metrics", 0, <<>>, <<>>, in.st,
                          IF in.st = "raise" THEN <<>> ELSE compute_metrics(in.rows))

CallComputeErrors ==
    /\ acall.op = "none"
    /\ \E in \in {AllEntries} : \E limit \in Limits :
          acall' = Called("compute_errors", limit, <<>>, <<>>, in.st,
                          IF in.st = "raise" THEN <<>> ELSE compute_errors(in.rows, limit))

CallErrors ==
    /\ acall.op = "none"
    /\ \E limit \in Limits : \E got \in {errors(iter_jsonl(StoreLines(wrecords)), limit)} :
          acall' = Called("errors", limit, <<>>, <<>>, got.st, got.rows)

CallComputeEndpoints ==
    /\ acall.op = "none"
    /\ \E in \in {WindowEntries} :
       \E limit \in Limits : \E sort_by \in SortKeys : \E order \in Orders :
          acall' = Called("compute_endpoints", limit, sort_by, order, in.st,
                          IF in.st = "raise" THEN <<>>
                          ELSE compute_endpoints(in.rows, limit, sort_by, order))

CallEndpoints ==
    /\ acall.op = "none"
    /\ \E in \in {WindowRows} :
       \E limit \in Limits : \E sort_by \in SortKeys : \E order \in Orders :
          acall' = Called("endpoints", limit, sort_by, order, in.st,
                          IF in.st = "raise" THEN <<>>
                          ELSE endpoints(in.rows, limit, sort_by, order))

\* ------------------------------------------------------------------------
\* Specifications
\* ------------------------------------------------------------------------

\* Ingest and query one after the other, as a single client makes them:
\* every payload, every query.
SerialIngest ==
    /\ rpc = "idle"
    /\ \E content \in Payloads : SaveUpload(content) \/ UploadLogFile(content)
    /\ UNCHANGED metVars
SerialReadStart ==
    /\ wpc = "idle"
    /\ \E q \in Queries : ReadStart(q)
    /\ UNCHANGED metVars
SerialQueryReturn == QueryReturn /\ UNCHANGED metVars

IngestInit == StoreInit /\ NormIdle /\ WindowIdle /\ QuantIdle /\ AggIdle
IngestNext ==
    \/ SerialIngest /\ UNCHANGED <<normVars, windowVars, quantVars, aggVars>>
    \/ WriteItem /\ UNCHANGED <<normVars, windowVars, quantVars, aggVars>>
    \/ CloseItems /\ UNCHANGED <<normVars, windowVars, quantVars, aggVars>>
    \/ OpenRaw /\ UNCHANGED <<normVars, windowVars, quantVars, aggVars>>
    \/ WriteRaw /\ UNCHANGED <<normVars, windowVars, quantVars, aggVars>>
    \/ SerialReadStart /\ UNCHANGED <<normVars, windowVars, quantVars, aggVars>>
    \/ ReadLine /\ UNCHANGED <<normVars, windowVars, quantVars, aggVars>>
    \/ ReadEnd /\ UNCHANGED <<normVars, windowVars, quantVars, aggVars>>
    \/ SerialQueryReturn /\ UNCHANGED <<normVars, windowVars, quantVars, aggVars>>
SpecIngest == IngestInit /\ [][IngestNext]_vars

\* The store under an ingest and a query that run at the same time: the
\* upload handler writes while a query handler, on a thread of its own, reads.
ConcurrentPayloads ==
    {Pretty(<<ObjStamped, ObjPlain>>), Pretty(<<ObjPlain, ObjPlain>>),
     dumps(ObjStamped) \o <<NL, NL, Junk, NL>> \o dumps(ObjPlain), <<>>}

\* A query that is under way meets the ingest that starts.
ConcurrentIngest ==
    /\ \E content \in ConcurrentPayloads :
          SaveUpload(content) \/ UploadLogFile(content)
    /\ wprev' = file
    /\ roverlap' = IF rpc = "idle" THEN 0 ELSE IF roverlap = 0 THEN 1 ELSE 2
    /\ UNCHANGED rbefore
\* A query that starts meets the ingest that is under way.
ConcurrentReadStart ==
    /\ \E q \in Queries : ReadStart(q)
    /\ rbefore' = IF wpc = "idle" THEN file ELSE wprev
    /\ roverlap' = IF wpc = "idle" THEN 0 ELSE 1
    /\ UNCHANGED wprev
ConcurrentQueryReturn ==
    /\ QueryReturn
    /\ rbefore' = <<>>
    /\ roverlap' = 0
    /\ UNCHANGED wprev

Init == StoreInit /\ NormIdle /\ WindowIdle /\ QuantIdle /\ AggIdle
Next ==
    \/ ConcurrentIngest /\ UNCHANGED <<normVars, windowVars, quantVars, aggVars>>
    \/ WriteItem /\ UNCHANGED <<normVars, windowVars, quantVars, aggVars>>
    \/ CloseItems /\ UNCHANGED <<normVars, windowVars, quantVars, aggVars>>
    \/ OpenRaw /\ UNCHANGED <<normVars, windowVars, quantVars, aggVars>>
    \/ WriteRaw /\ UNCHANGED <<normVars, windowVars, quantVars, aggVars>>
    \/ ConcurrentReadStart /\ UNCHANGED <<normVars, windowVars, quantVars, aggVars>>
    \/ ReadLine /\ UNCHANGED <<normVars, windowVars, quantVars, aggVars>>
    \/ ReadEnd /\ UNCHANGED <<normVars, windowVars, quantVars, aggVars>>
    \/ ConcurrentQueryReturn /\ UNCHANGED <<normVars, windowVars, quantVars, aggVars>>
Spec == Init /\ [][Next]_vars

\* The store under an ingest and a load_window that run at the same time.
\* The payloads are arrays of events: of 11:00; of 09:00 and 10:00; none.
LoadWindowPayloads ==
    {dumps(JList(<<Stamp(TS1100, "/d")>>)),
     dumps(JList(<<Stamp(TS0900, "/a"), Stamp(TS1000, "/b")>>)),
     dumps(JList(<<>>))}
LoadWindowIngest ==
    /\ \E content \in LoadWindowPayloads :
          SaveUpload(content) \/ UploadLogFile(content)
    /\ wprev' = file
    /\ roverlap' = IF rpc = "idle" THEN 0 ELSE IF roverlap = 0 THEN 1 ELSE 2
    /\ UNCHANGED rbefore
LoadWindowStart ==
    /\ ReadStart("load_window")
    /\ rbefore' = IF wpc = "idle" THEN file ELSE wprev
    /\ roverlap' = IF wpc = "idle" THEN 0 ELSE 1
    /\ UNCHANGED wprev
LoadWindowNext ==
    \/ LoadWindowIngest /\ UNCHANGED <<normVars, windowVars, quantVars, aggVars>>
    \/ WriteItem /\ UNCHANGED <<normVars, windowVars, quantVars, aggVars>>
    \/ CloseItems /\ UNCHANGED <<normVars, windowVars, quantVars, aggVars>>
    \/ LoadWindowStart /\ UNCHANGED <<normVars, windowVars, quantVars, aggVars>>
    \/ ReadLine /\ UNCHANGED <<normVars, windowVars, quantVars, aggVars>>
    \/ ScanAgain /\ UNCHANGED <<normVars, windowVars, quantVars, aggVars>>
    \/ WindowEnd /\ UNCHANGED <<normVars, windowVars, quantVars, aggVars>>
    \/ ConcurrentQueryReturn /\ UNCHANGED <<normVars, windowVars, quantVars, aggVars>>
SpecLoadWindow == Init /\ [][LoadWindowNext]_vars

\* The two normalizers on every raw record.
NormInit ==
    /\ StoreInit
    /\ WindowIdle
    /\ QuantIdle
    /\ AggIdle
    /\ nraw \in RawRecords \cup NotARecord
    /\ nmain = Pending
    /\ nparser = Pending
NormNext ==
    \/ CallNormalize /\ UNCHANGED <<storeVars, windowVars, quantVars, aggVars>>
    \/ CallLogParserNormalize /\ UNCHANGED <<storeVars, windowVars, quantVars, aggVars>>
SpecNorm == NormInit /\ [][NormNext]_vars

\* quantile on every ascending list of values and every level.
QuantInit ==
    /\ StoreInit
    /\ NormIdle
    /\ WindowIdle
    /\ AggIdle
    /\ svals \in SortedSamples
    /\ sq \in QuantileLevels
    /\ sres = NotReturned
QuantNext ==
    CallQuantile /\ UNCHANGED <<storeVars, normVars, windowVars, aggVars>>
SpecQuantile == QuantInit /\ [][QuantNext]_vars

\* The aggregations on every store content.
AggInit ==
    /\ StoreInit
    /\ NormIdle
    /\ QuantIdle
    /\ wrecords \in SeqsUpTo(EventRecords, MaxEvents)
    /\ wminutes \in AggMinutes
    /\ wnow = 0
    /\ wagg = NotCalled
    /\ wmain = NotCalled
    /\ acall = NoCall
AggNext ==
    \/ CallComputeMetrics /\ UNCHANGED <<storeVars, normVars, windowVars, quantVars>>
    \/ CallComputeErrors /\ UNCHANGED <<storeVars, normVars, windowVars, quantVars>>
    \/ CallErrors /\ UNCHANGED <<storeVars, normVars, windowVars, quantVars>>
    \/ CallComputeEndpoints /\ UNCHANGED <<storeVars, normVars, windowVars, quantVars>>
    \/ CallEndpoints /\ UNCHANGED <<storeVars, normVars, windowVars, quantVars>>
SpecAggregate == AggInit /\ [][AggNext]_vars

\* The window selection on every store content.
WindowInit ==
    /\ StoreInit
    /\ NormIdle
    /\ QuantIdle
    /\ AggIdle
    /\ wrecords \in SeqsUpTo(WindowRecords, MaxEvents)
    /\ wminutes \in WindowMinutes
    /\ wnow \in Clocks
    /\ wagg = NotCalled
    /\ wmain = NotCalled
WindowNext ==
    \/ CallFilterByWindow /\ UNCHANGED <<storeVars, normVars, quantVars, aggVars>>
    \/ CallLoadWindow /\ UNCHANGED <<storeVars, normVars, quantVars, aggVars>>
SpecWindow == WindowInit /\ [][WindowNext]_vars

\* ------------------------------------------------------------------------
\* Properties
\* ------------------------------------------------------------------------

\* The JSON document of a payload, as an ingest parses it.
PayloadDocument(p) == loads(Strip(Decode(p)))
IsScalarDocument(p) ==
    LET doc == PayloadDocument(p) IN doc.ok /\ ~IsList(doc.v) /\ ~IsDict(doc.v)
IsObjectArray(p) ==
    LET doc == PayloadDocument(p) IN
    doc.ok /\ IsList(doc.v) /\ \A i \in 1..Len(doc.v.a) : IsDict(doc.v.a[i])
\* A payload of no bytes, or of nothing but whitespace and bytes that do not
\* decode.
IsBlankPayload(p) == \A i \in 1..Len(p) : IsSpaceTok(p[i]) \/ p[i] = Bad
\* The objects among the items.
IsObject(v) == IsDict(v)
ObjectsOf(items) == SelectSeq(items, IsObject)
\* The lines hold the objects, one per line, in their order.
LinesHold(lines, objs) ==
    /\ Len(lines) = Len(objs)
    /\ \A i \in 1..Len(lines) :
          loads(lines[i]).ok /\ PyEq(loads(lines[i]).v, objs[i])
\* A step of the ingest of a payload in P.
IngestStepOf(P) == ingestVars' # ingestVars /\ wpayload' \in P

\* C1. A query that ran while one ingest ran has read either the lines the
\* store held before that ingest or the lines it holds after the ingest
\* completed, never a truncated or partly written content.
C1_QueryReadsOldOrNew ==
    (rpc = "done" /\ roverlap = 1 /\ wpc = "idle") =>
        racc \in {read_lines(rbefore), read_lines(file)}

\* C2. An ingest of a payload that parses as a JSON document that is neither
\* an array nor an object changes the store at no step, and returns an error.
C2_ScalarDocumentRejected ==
    [][IngestStepOf({p \in Payloads : IsScalarDocument(p)}) =>
          (file' = file /\ (wpc' = "idle" => wresult'.status = "error"))]_vars

\* C3. A query completes without raising whatever the store holds: lines
\* that are no JSON, JSON values that are no objects, objects without a
\* timestamp.
C3_QueryNeverRaises == rpc = "done" => qres.st = "ok"

\* The events between the latest timestamp less the minutes and the latest
\* timestamp, both ends included.
ClaimedWindow(events, minutes) ==
    IF events = <<>> THEN <<>>
    ELSE LET stamps == {events[i].timestamp.n : i \in 1..Len(events)}
             anchor == CHOOSE t \in stamps : \A u \in stamps : u <= t
             Within(e) ==
                 anchor - minutes <= e.timestamp.n /\ e.timestamp.n <= anchor
         IN  SelectSeq(events, Within)
StampsOf(rows) == [i \in 1..Len(rows) |-> rows[i].timestamp.n]

\* C4. The window selection returns exactly the events e with anchor -
\* minutes <= e.timestamp <= anchor, where anchor is the latest timestamp of
\* the events, whatever the wall clock; no events give an empty window.
C4_WindowAnchoredAtLatest ==
    /\ wagg # NotCalled =>
          wagg = Rows(ClaimedWindow(load_all_entries(StoreLines(wrecords)).rows,
                                    wminutes))
    /\ wmain # NotCalled =>
          wmain = Rows(ClaimedWindow(
                          NormalizeAll(iter_jsonl(StoreLines(wrecords))).rows,
                          wminutes))
\* Events at 09:00, 10:00 and 11:00 with 60 minutes give the events of 10:00
\* and 11:00, the wall clock being at 12:00.
C4_Witness ==
    /\ StampsOf(NormalizeAll(wrecords).rows) = <<540, 600, 660>>
    /\ wminutes = 60
    /\ wnow = 720
    /\ wagg.st = "ok" /\ StampsOf(wagg.rows) = <<600, 660>>
    /\ wmain.st = "ok" /\ StampsOf(wmain.rows) = <<600, 660>>

\* What an ingest of the payload writes into a store that holds nothing.
WrittenAlone(p) ==
    LET text == Strip(Decode(p))
        plan == PlanOf(text, "save_upload")
        lines == FlattenSeq([i \in 1..Len(plan.items) |-> LineOf(plan.items[i])])
    IN  IF plan.kind = "items" /\ Encodable(lines) THEN lines
        ELSE Chars(RawText(text))
HasNoObject(p) ==
    LET doc == PayloadDocument(p) IN
    doc.ok /\ IsList(doc.v) /\ ObjectsOf(doc.v.a) = <<>>

\* C5. Between ingests the store holds exactly what the last ingest that
\* succeeded writes on its own: nothing of an earlier content, nothing
\* changed by an ingest that was rejected since; no line at all after an
\* array without objects.
C5_StoreIsLastIngestAlone ==
    wpc = "idle" =>
        /\ wstored = NoPayload => file = <<>>
        /\ wstored # NoPayload => file = WrittenAlone(wstored)
        /\ (wstored # NoPayload /\ HasNoObject(wstored)) => read_lines(file) = <<>>
\* An ingest was rejected after the ingest of an array of two objects: the
\* store holds the two lines.
C5_Witness ==
    /\ wpc = "idle"
    /\ wresult.status = "error"
    /\ wstored = Pretty(<<ObjStamped, ObjStamped>>)
    /\ Len(read_lines(file)) = 2

\* C6. After the ingest of an array of N objects the store reads back as N
\* lines, line i parsing to an object equal to the i-th object of the array,
\* and the ingest reports N written.
C6_ArrayRoundTrip ==
    (wpc = "idle" /\ wresult.status = "ok" /\ IsObjectArray(wpayload)) =>
        /\ LinesHold(read_lines(file), PayloadDocument(wpayload).v.a)
        /\ wresult.written = Len(PayloadDocument(wpayload).v.a)

\* The first of the keys, in their order, that the object has with a list;
\* 0 when it has none.
ClaimedKey(obj) ==
    LET holds == {j \in 1..Len(WrapKeys) :
                     \E i \in 1..Len(obj.k) :
                         obj.k[i] = K(WrapKeys[j]) /\ IsList(obj.a[i])}
    IN  IF holds = {} THEN 0
        ELSE CHOOSE j \in holds : \A h \in holds : j <= h

\* C7. After the ingest of a JSON object the store holds the elements of the
\* list under the first of logs, events, entries, data, items that holds a
\* list, and the mode names that key; with no such key it holds the object
\* as its only line, the mode is single-object and one line is reported.
C7_ObjectByFirstListKey ==
    (wpc = "idle" /\ wresult.status = "ok" /\ PayloadDocument(wpayload).ok
        /\ IsDict(PayloadDocument(wpayload).v)) =>
        LET obj == PayloadDocument(wpayload).v
            j == ClaimedKey(obj)
        IN  IF j # 0
            THEN /\ wresult.mode.key = WrapKeys[j]
                 /\ wresult.mode.name \in {"json_object.{key}", "json_object.{key}_list"}
                 /\ LinesHold(read_lines(file),
                              ObjectsOf(Item(obj, K(WrapKeys[j])).a))
            ELSE /\ wresult.mode.name = "single_json_object"
                 /\ wresult.written = 1
                 /\ LinesHold(read_lines(file), <<obj>>)

\* C8. An ingest of a payload that is empty, or empty once decoded and
\* trimmed, is rejected at once with an error and leaves the store as it was.
C8_EmptyPayloadRejected ==
    [][IngestStepOf({p \in Payloads : IsBlankPayload(p)}) =>
          (file' = file /\ wpc' = "idle" /\ wresult'.status = "error")]_vars
\* A payload of whitespace was rejected while the store held a line.
C8_Witness ==
    /\ wpc = "idle"
    /\ wpayload = <<SP, NL>>
    /\ wresult.status = "error"
    /\ Len(read_lines(file)) = 1

\* The value of the first path of the chain that the record has with a
\* value; None when it has none.
FirstPresent(raw, chain) ==
    LET has == {i \in 1..Len(chain) : ~IsNone(get_nested(raw, chain[i]))}
    IN  IF has = {} THEN None
        ELSE get_nested(raw, chain[CHOOSE i \in has : \A h \in has : i <= h])
\* A boolean as it is; of any other value the trimmed, lower-cased text:
\* true, 1, yes; false, 0, no; else unknown.
ClaimedAuth(v) ==
    IF IsBool(v) THEN v
    ELSE IF IsNone(v) THEN None
    ELSE LET s == lower(strip(PyStr(v))) IN
         IF s \in {<<"true">>, <<"1">>, <<"yes">>} THEN JBool(TRUE)
         ELSE IF s \in {<<"false">>, <<"0">>, <<"no">>} THEN JBool(FALSE)
         ELSE None

\* C9. The authentication flag of an event is the value of the first present
\* key among is_authenticated, authenticated, auth.is_authenticated: a
\* boolean as it is (false stays false), any other value by its trimmed,
\* lower-cased text, unknown when no key is present.
C9_AuthFromFirstPresentKey ==
    /\ nmain.st = "ok" =>
          nmain.e.is_authenticated = ClaimedAuth(FirstPresent(nraw, AuthChain))
    /\ nparser.st = "ok" =>
          nparser.e.is_authenticated = ClaimedAuth(FirstPresent(nraw, AuthChain))

\* The fields of an event as the first present key of each chain gives them.
ResolvedFirstPresent(e, raw) ==
    /\ e.method = StrOrNone(FirstPresent(raw, MethodChain))
    /\ e.path = StrOrNone(FirstPresent(raw, PathChain))
    /\ e.status_code = safe_int(FirstPresent(raw, StatusChain))
    /\ e.duration_ms = safe_float(FirstPresent(raw, DurationChain))
    /\ e.user_id = safe_int(FirstPresent(raw, UserChain))

\* C10. method, path, status_code, duration_ms and user_id of an event come
\* each from the first key of its chain that is present in the record: a
\* flat key that holds 0 is the value, no later key replaces it.
C10_FieldsFromFirstPresentKey ==
    /\ nmain.st = "ok" => ResolvedFirstPresent(nmain.e, nraw)
    /\ nparser.st = "ok" => ResolvedFirstPresent(nparser.e, nraw)

\* A value that stands for no value: null, false, 0, an empty text, list or
\* object.
IsEmptyValue(v) ==
    v \in {JNull, JBool(FALSE), JNum(0), JStr(<<>>), JList(<<>>), JDict(<<>>, <<>>)}
\* The value of the first path of the chain under which the record holds a
\* value that is not empty; None when there is none.
FirstNonEmpty(raw, chain) ==
    LET has == {i \in 1..Len(chain) : ~IsEmptyValue(get_nested(raw, chain[i]))}
    IN  IF has = {} THEN None
        ELSE get_nested(raw, chain[CHOOSE i \in has : \A h \in has : i <= h])
\* The instant a timestamp text names, in UTC: the time of day as it is for
\* a text without offset or with Z, an hour earlier for +01:00; None for
\* what is no timestamp text.
ClaimedUtc(v) ==
    IF v.t = "str" /\ Len(v.s) \in {1, 2} /\ v.s[1] \in DateTimes
          /\ (Len(v.s) = 2 => v.s[2] \in Offsets)
    THEN JNum(DateTimeMinutes(v.s[1])
              - (IF Len(v.s) = 2 /\ v.s[2] = "+01:00" THEN 60 ELSE 0))
    ELSE None
TimestampAsClaimed(got, raw) ==
    LET want == ClaimedUtc(FirstNonEmpty(raw, TimestampChain)) IN
    /\ got.st # "raise"
    /\ got.st = "none" <=> IsNone(want)
    /\ got.st = "ok" => (got.e.timestamp = want /\ ~IsNone(got.e.timestamp))

FlattenedList(doc) ==
    IF doc.ok /\ IsList(doc.v) THEN [ok |-> TRUE, items |-> doc.v.a]
    ELSE IF doc.ok /\ IsDict(doc.v) /\ ClaimedKey(doc.v) # 0
    THEN [ok |-> TRUE, items |-> Item(doc.v, K(WrapKeys[ClaimedKey(doc.v)])).a]
    ELSE [ok |-> FALSE, items |-> <<>>]

\* C16. After the ingest of an array or of a wrapped list the written count
\* is the number of the elements that are objects, the store has that many
\* lines, and the lines are these objects in their order: the other
\* elements are skipped.
C16_NonObjectsSkipped ==
    (wpc = "idle" /\ wresult.status = "ok"
        /\ FlattenedList(PayloadDocument(wpayload)).ok) =>
        LET objs == ObjectsOf(FlattenedList(PayloadDocument(wpayload)).items) IN
        /\ wresult.written = Len(objs)
        /\ Len(read_lines(file)) = Len(objs)
        /\ LinesHold(read_lines(file), objs)

\* C18. normalize of main.py and LogParser.normalize agree on every record:
\* both reject it, or both return events equal in all eleven fields.
C18_NormalizersAgree ==
    (nmain # Pending /\ nparser # Pending) =>
        /\ nmain.st = nparser.st
        /\ nmain.st = "ok" =>
              \A f \in DOMAIN nmain.e : nmain.e[f] = nparser.e[f]

\* What load_window returns on a store that holds the text and does not
\* change.
WindowOfContent(text) ==
    load_window(iter_jsonl(read_lines(text)), iter_jsonl(read_lines(text)),
                DefaultMinutes).rows

\* C17. A load_window that met at most one ingest returns the window of one
\* content of the store, the one before the ingest or the one after it: the
\* anchor is the latest timestamp of the content the events were read from.
C17_WindowOfOneContent ==
    (rpc = "done" /\ rquery = "load_window" /\ roverlap <= 1 /\ wpc = "idle") =>
        /\ qres.st = "ok"
        /\ qres.rows \in {WindowOfContent(rbefore), WindowOfContent(file)}

\* C15. quantile returns 0 for no value and the value for one; the median of
\* 10, 20, 30, 40 is 25; the result lies between the lowest and the highest
\* value; and it does not decrease as the level grows (p50 <= p95 <= p99).
C15_QuantileBoundedMonotone ==
    sres.st = "ok" =>
        LET n == Len(svals) IN
        /\ n = 0 => sres.v = FZero
        /\ n = 1 => sres.v = svals[1]
        /\ (svals = <<F10, F20, F30, F40>> /\ sq = Q50) => sres.v = F25
        /\ n >= 2 => (FLe(svals[1], sres.v) /\ FLe(sres.v, svals[n]))
        /\ \A q \in QuantileLevels : FLe(sq, q) => FLe(sres.v, quantile(svals, q))

\* An event has a field when the field holds a text that is not empty.
HasText(v) == ~IsNone(v) /\ v.s # <<>>
RequestLike(e) == HasText(e.method) /\ HasText(e.path)
StatusFrom400(e) == ~IsNone(e.status_code) /\ e.status_code.n >= 400
CountOf(seq, x) == Cardinality({i \in 1..Len(seq) : seq[i] = x})
Least(a, b) == IF a <= b THEN a ELSE b
\* The events of the whole store, and those of the window of a call.
StoreEvents == AllEntries.rows
WindowEvents == WindowEntries.rows

\* C12. compute_metrics counts as total_requests the events that have method
\* and path, as error_count those of them with status_code >= 400, so that
\* 0 <= error_count <= total_requests; error_rate is error_count /
\* total_requests * 100, and 0 for no request; and the events that are not
\* request-like change no metric.
C12_MetricsOverRequests ==
    (acall.op = "compute_metrics" /\ acall.st = "ok") =>
        LET requests == SelectSeq(WindowEvents, RequestLike)
            failed == SelectSeq(requests, StatusFrom400)
            m == acall.out
        IN  /\ m.total_requests = Len(requests)
            /\ m.error_count = Len(failed)
            /\ 0 <= m.error_count /\ m.error_count <= m.total_requests
            /\ m.total_requests = 0 => m.error_rate = FZero
            /\ m.total_requests > 0 =>
                  m.error_rate = FMul(FDiv(FloatOfInt(Len(failed)), Len(requests)), F100)
            /\ m = compute_metrics(requests)
\* Metrics of a window that holds two requests, one of them failed, and an
\* event without a method.
C12_Witness ==
    /\ acall.op = "compute_metrics"
    /\ acall.st = "ok"
    /\ acall.out.total_requests = 2
    /\ acall.out.error_count = 1
    /\ Len(WindowEvents) = 3

\* The events that are errors as the listing defines them.
LevelIsError(e) == lower(e.level.s) = <<"error">>
ListedError(e) == StatusFrom400(e) \/ LevelIsError(e)
DescendingByTimestamp(out) ==
    \A i \in 1..Len(out) : \A j \in 1..Len(out) :
        i < j => out[i].timestamp.n >= out[j].timestamp.n
\* out are the latest limit of the errors of the events, the latest first
LatestErrors(out, events, limit) ==
    LET errs == SelectSeq(events, ListedError)
        From(seq, t) == Cardinality({i \in 1..Len(seq) : seq[i].timestamp.n >= t})
    IN  /\ Len(out) = Least(limit, Len(errs))
        /\ \A i \in 1..Len(out) :
              ListedError(out[i]) /\ CountOf(out, out[i]) <= CountOf(errs, out[i])
        /\ DescendingByTimestamp(out)
        /\ \A i \in 1..Len(errs) :
              From(out, errs[i].timestamp.n) = Least(limit, From(errs, errs[i].timestamp.n))

\* C13. The error listing is taken from the whole store, whatever the
\* window: the events with status_code >= 400 or a level that is ERROR in
\* any case, the latest first, cut to limit.
C13_ErrorsOverWholeStore ==
    (acall.op \in {"compute_errors", "errors"} /\ acall.st = "ok") =>
        LatestErrors(acall.out, StoreEvents, acall.limit)
\* A listing that holds an error by level alone and an error that is older
\* than the window of the metrics.
C13_Witness ==
    /\ acall.op \in {"compute_errors", "errors"}
    /\ acall.st = "ok"
    /\ \E i \in 1..Len(acall.out) :
          ~StatusFrom400(acall.out[i]) /\ acall.out[i].level = JStr(<<"error">>)
    /\ \E i \in 1..Len(acall.out) :
          acall.out[i].timestamp.n < LatestOf(StoreEvents).n - wminutes
    /\ \E i \in 1..Len(StoreEvents) : ~ListedError(StoreEvents[i])

\* The requests of a path, the place where the path is first met, and the
\* sort key of a statistic.
RequestsOn(events, path) ==
    LET On(e) == RequestLike(e) /\ e.path.s = path IN SelectSeq(events, On)
FirstPlace(events, path) ==
    MinOf({i \in 1..Len(events) : RequestLike(events[i]) /\ events[i].path.s = path})
PathsOf(events) == {events[i].path.s : i \in {j \in 1..Len(events) : RequestLike(events[j])}}
\* a goes before b: by the key, in the order asked for; by the place where
\* the path is first met when the keys are equal
GoesBefore(a, b, events, sort_by, order) ==
    LET less == IF sort_by = <<"p95">>
                THEN FLt(a.p95_response_time, b.p95_response_time)
                ELSE a.count < b.count
        more == IF sort_by = <<"p95">>
                THEN FLt(b.p95_response_time, a.p95_response_time)
                ELSE b.count < a.count
    IN  IF less \/ more THEN (IF order = <<"asc">> THEN less ELSE more)
        ELSE FirstPlace(events, a.path) < FirstPlace(events, b.path)
EndpointsAsClaimed(out, events, limit, sort_by, order) ==
    /\ Len(out) = Least(limit, Cardinality(PathsOf(events)))
    /\ \A i \in 1..Len(out) :
          /\ out[i].path \in PathsOf(events)
          /\ out[i].count = Len(RequestsOn(events, out[i].path))
    /\ \A i \in 1..Len(out) : \A j \in 1..Len(out) :
          i < j => GoesBefore(out[i], out[j], events, sort_by, order)
    /\ \A p \in PathsOf(events) \ {out[i].path : i \in 1..Len(out)} :
          \A i \in 1..Len(out) :
              GoesBefore(out[i], BucketStat(p, RequestsOn(events, p)),
                         events, sort_by, order)

\* C14. The endpoint statistics hold one entry per path of the request-like
\* events, at most limit of them, in the order of the chosen key (count or
\* p95), descending unless the order is asc; paths of equal key stand in
\* the order in which the input first met them, in both orders.
C14_EndpointsSortedStable ==
    (acall.op \in {"compute_endpoints", "endpoints"} /\ acall.st = "ok") =>
        EndpointsAsClaimed(acall.out, WindowEvents, acall.limit, acall.sort_by, acall.order)
\* Two requests on /a after one on /b, by count descending: /a first.  And
\* the same for two paths of equal count, /b before /a as met.
C14_Witness ==
    /\ acall.op \in {"compute_endpoints", "endpoints"}
    /\ acall.st = "ok"
    /\ acall.sort_by = <<"count">>
    /\ acall.order = <<"desc">>
    /\ Len(acall.out) = 2
    /\ acall.out[1].path = <<"/a">> /\ acall.out[1].count = 2
    /\ acall.out[2].path = <<"/b">> /\ acall.out[2].count = 1
    /\ FirstPlace(WindowEvents, <<"/b">>) = 1
====
